---------------------------- MODULE Spec2Model ----------------------------
(***************************************************************************)
(* Model of the mentoria onboarding-track generator: the in-memory legal   *)
(* library and company metadata stores, the legal ingestion engine, and    *)
(* the enhanced lesson plan flow with its topic resolver, company context  *)
(* and quiz synthesizer.                                                   *)
(*                                                                         *)
(* JavaScript strings are TLA+ strings; the string methods the code uses   *)
(* (toLowerCase, includes, split, join, substring, trim) are operators     *)
(* computed character by character.                                        *)
(***************************************************************************)
EXTENDS Integers, Sequences, FiniteSets, TLC

VARIABLES
    MOCK_LEGAL_LIBRARY,             \* firebase.ts: the legal library array
    MOCK_COMPANY_METADATA_ENHANCED, \* company-metadata.ts: the company store
    UNRESOLVED_TOPICS,              \* enhanced-lesson-plan.ts: the log
    MOCK_ONBOARDING_TRACKS,         \* firebase.ts: saved tracks
    clock,                          \* the wall clock read by new Date()
    gen,                            \* the generateEnhancedLessonPlan call in flight
    calls,                          \* generation calls started so far
    ing,                            \* the MasterLegalIngestionEngine.execute run
    ingests,                        \* ingestion runs started so far
    saves,                          \* saveCompanyMetadata calls made so far
    written,                        \* history: first/last write per companyId
    quizIn,                         \* the module handed to generateQuizForModule
    quizOut,                        \* what generateQuizForModule returned for it
    call                            \* a call of one of the other pure functions

vars == << MOCK_LEGAL_LIBRARY, MOCK_COMPANY_METADATA_ENHANCED, UNRESOLVED_TOPICS,
           MOCK_ONBOARDING_TRACKS, clock, gen, calls, ing, ingests, saves,
           written, quizIn, quizOut, call >>

-----------------------------------------------------------------------------
(* Bounds of the model.                                                    *)

MaxCalls == 1
MaxIngests == 1
MaxSaves == 2
MaxClock == 1

-----------------------------------------------------------------------------
(* JavaScript string and array primitives.  Array.prototype.filter is      *)
(* SelectSeq.                                                              *)

\* null / undefined where an object is expected, and where a string is expected.
NoValue == [ null |-> TRUE ]
Undefined == "<undefined>"

UpperChars == "ABCDEFGHIJKLMNOPQRSTUVWXYZ"
LowerChars == "abcdefghijklmnopqrstuvwxyz"

CharAt(s, i) == SubSeq(s, i, i)

\* String.prototype.substring(from, to) with 0-based, end-exclusive bounds.
Substring(s, from, to) ==
    LET hi == IF to > Len(s) THEN Len(s) ELSE to
    IN  SubSeq(s, from + 1, hi)

\* String.prototype.includes
Includes(s, t) ==
    \/ Len(t) = 0
    \/ \E i \in 0..(Len(s) - Len(t)) : SubSeq(s, i + 1, i + Len(t)) = t

\* The lower-case letter of each upper-case letter.
LowerOf ==
    [ c \in { CharAt(UpperChars, i) : i \in 1..Len(UpperChars) } |->
        CharAt(LowerChars, CHOOSE i \in 1..Len(UpperChars) : CharAt(UpperChars, i) = c) ]

LowerChar(c) == IF c \in DOMAIN LowerOf THEN LowerOf[c] ELSE c

\* String.prototype.toLowerCase
RECURSIVE ToLowerCase(_)
ToLowerCase(s) ==
    IF Len(s) = 0 THEN ""
    ELSE IF Len(s) = 1 THEN LowerChar(s)
    ELSE LET half == Len(s) \div 2
         IN  ToLowerCase(SubSeq(s, 1, half)) \o ToLowerCase(SubSeq(s, half + 1, Len(s)))

\* The position of an occurrence of sep in s near the middle of s: the first
\* one from the middle on, or else the last one before it.
SeparatorAt(s, sep, mid) ==
    IF \E k \in mid..Len(s) : CharAt(s, k) = sep
    THEN CHOOSE k \in mid..Len(s) :
            /\ CharAt(s, k) = sep
            /\ \A j \in mid..(k - 1) : CharAt(s, j) # sep
    ELSE CHOOSE k \in 1..(mid - 1) :
            /\ CharAt(s, k) = sep
            /\ \A j \in (k + 1)..(mid - 1) : CharAt(s, j) # sep

\* String.prototype.split(sep) for a one-character separator: the pieces
\* between the occurrences of sep, computed by halving.
RECURSIVE Split(_, _)
RECURSIVE SplitAround(_, _, _)
SplitAround(s, sep, i) ==
    Split(SubSeq(s, 1, i - 1), sep) \o Split(SubSeq(s, i + 1, Len(s)), sep)

Split(s, sep) ==
    IF ~(\E i \in 1..Len(s) : CharAt(s, i) = sep)
    THEN << s >>
    ELSE SplitAround(s, sep, SeparatorAt(s, sep, (Len(s) + 1) \div 2))

\* Array.prototype.join(sep)
RECURSIVE Join(_, _)
Join(arr, sep) ==
    IF Len(arr) = 0 THEN ""
    ELSE IF Len(arr) = 1 THEN arr[1]
    ELSE LET half == Len(arr) \div 2
         IN  Join(SubSeq(arr, 1, half), sep) \o sep
             \o Join(SubSeq(arr, half + 1, Len(arr)), sep)

\* slice(-n): the last n elements.
MutantSlice(arr, n) == SubSeq(arr, IF n > Len(arr) THEN 1 ELSE Len(arr) - n + 1, Len(arr))

\* Array.prototype.slice(0, n)
Slice(arr, n) == SubSeq(arr, 1, IF n > Len(arr) THEN Len(arr) ELSE n)

\* [...new Set(arr)]: first occurrences, in order.
RECURSIVE Dedupe(_)
Dedupe(arr) ==
    IF Len(arr) = 0 THEN << >>
    ELSE LET front == Dedupe(SubSeq(arr, 1, Len(arr) - 1))
             last == arr[Len(arr)]
         IN  IF \E i \in 1..Len(front) : front[i] = last
             THEN front ELSE Append(front, last)

Range(arr) == { arr[i] : i \in 1..Len(arr) }


-----------------------------------------------------------------------------
(* legal-ingestion: keyword extraction, relevance and synonyms.            *)

\* The characters of the class \s that the texts hold.
IsWhitespace(c) == c = " " \/ c = "\n" \/ c = "\t"

\* The characters of the class \w.
WordChars ==
    LET chars == "abcdefghijklmnopqrstuvwxyzABCDEFGHIJKLMNOPQRSTUVWXYZ0123456789_"
    IN  { CharAt(chars, i) : i \in 1..Len(chars) }

IsWordChar(c) == c \in WordChars

\* text.replace(/[^\w\s]/g, ' ')
RECURSIVE StripPunctuation(_)
StripPunctuation(s) ==
    IF Len(s) = 0 THEN ""
    ELSE IF Len(s) = 1 THEN (IF IsWordChar(s) \/ IsWhitespace(s) THEN s ELSE " ")
    ELSE LET half == Len(s) \div 2
         IN  StripPunctuation(SubSeq(s, 1, half))
             \o StripPunctuation(SubSeq(s, half + 1, Len(s)))

commonWords ==
    { "the", "and", "or", "of", "to", "in", "for", "with", "by", "from",
      "shall", "may", "must", "any", "all", "such", "this", "that", "these",
      "those", "are", "is", "be", "been", "being", "have", "has", "had" }

KeywordLimit == 20

KeepWord(word) == Len(word) > 3 /\ word \notin commonWords

\* text with every white space character written as a space.
RECURSIVE NormalizeWhitespace(_)
NormalizeWhitespace(s) ==
    IF Len(s) = 0 THEN ""
    ELSE IF Len(s) = 1 THEN (IF IsWhitespace(s) THEN " " ELSE s)
    ELSE LET half == Len(s) \div 2
         IN  NormalizeWhitespace(SubSeq(s, 1, half))
             \o NormalizeWhitespace(SubSeq(s, half + 1, Len(s)))

\* The pieces of a split on single spaces that a split on runs of spaces
\* keeps: every non-empty piece, and an empty first or last piece.
RECURSIVE KeepPieces(_, _, _)
KeepPieces(pieces, i, n) ==
    IF i > Len(pieces) THEN << >>
    ELSE (IF pieces[i] # "" \/ i = 1 \/ i = n THEN << pieces[i] >> ELSE << >>)
         \o KeepPieces(pieces, i + 1, n)

SplitPieces(pieces) == KeepPieces(pieces, 1, Len(pieces))

\* String.prototype.split(/\s+/)
SplitWhitespace(s) == SplitPieces(Split(NormalizeWhitespace(s), " "))

\* extractKeywords without the removal of repeated words.
MutantExtractKeywords(text) ==
    Slice(SelectSeq(SplitWhitespace(StripPunctuation(ToLowerCase(text))), KeepWord),
          KeywordLimit)

extractKeywords(text) ==
    Slice(Dedupe(SelectSeq(SplitWhitespace(StripPunctuation(ToLowerCase(text))), KeepWord)),
          KeywordLimit)

HR_ONBOARDING_TRIGGERS ==
    << "strata", "audit", "gst", "company registration", "termination",
       "contract", "leave policy", "employment", "salary", "benefits",
       "compliance", "data protection", "pdpa", "workplace safety",
       "harassment", "discrimination", "grievance", "disciplinary" >>

isHRRelevant(content, title) ==
    LET text == ToLowerCase(content \o " " \o title)
    IN  \E i \in 1..Len(HR_ONBOARDING_TRIGGERS) :
            Includes(text, ToLowerCase(HR_ONBOARDING_TRIGGERS[i]))

\* LAW_CATEGORIES, in the order Object.entries walks it.
LAW_CATEGORIES ==
    << << "strata", "Strata Management" >>,
       << "property", "Property Law" >>,
       << "employment", "Employment Law" >>,
       << "company", "Corporate Law" >>,
       << "data", "Data Protection" >>,
       << "tax", "Taxation" >>,
       << "audit", "Audit and Compliance" >>,
       << "construction", "Construction and Building" >>,
       << "environment", "Environmental Law" >>,
       << "trade", "Trade and Commerce" >> >>

\* The loop of categorizeLegalContent returning the category of the last
\* table keyword the text contains.
RECURSIVE MutantCategoryFrom(_, _)
MutantCategoryFrom(text, k) ==
    IF k > Len(LAW_CATEGORIES) THEN "General Law"
    ELSE IF MutantCategoryFrom(text, k + 1) # "General Law"
    THEN MutantCategoryFrom(text, k + 1)
    ELSE IF Includes(text, LAW_CATEGORIES[k][1]) THEN LAW_CATEGORIES[k][2]
    ELSE "General Law"

\* The loop of categorizeLegalContent from table entry k on.
RECURSIVE CategoryFrom(_, _)
CategoryFrom(text, k) ==
    IF k > Len(LAW_CATEGORIES) THEN "General Law"
    ELSE IF Includes(text, LAW_CATEGORIES[k][1]) THEN LAW_CATEGORIES[k][2]
    ELSE CategoryFrom(text, k + 1)

categorizeLegalContent(title, content) ==
    CategoryFrom(ToLowerCase(title \o " " \o content), 1)

synonymMap ==
    << << "strata", << "strata title", "strata management", "building management", "jmb", "mc" >> >>,
       << "audit", << "auditing", "financial audit", "compliance audit", "internal audit" >> >>,
       << "company", << "corporation", "business entity", "corporate entity", "enterprise" >> >>,
       << "employment", << "employment act", "labor law", "worker rights", "employee rights" >> >>,
       << "data protection", << "pdpa", "privacy law", "data privacy", "personal data" >> >> >>

RECURSIVE SynonymsFrom(_, _)
SynonymsFrom(titleLower, k) ==
    IF k > Len(synonymMap) THEN << >>
    ELSE (IF Includes(titleLower, synonymMap[k][1]) THEN synonymMap[k][2] ELSE << >>)
         \o SynonymsFrom(titleLower, k + 1)

generateSynonyms(title) == Dedupe(SynonymsFrom(ToLowerCase(title), 1))

-----------------------------------------------------------------------------
(* enhanced-legal-scraper: the content the ingestion run processes.  The   *)
(* entries are the three of the first content group, with the source's     *)
(* titles, categories, urls and keywords.  Each text is abridged to its    *)
(* opening, which decides its excerpt, its extracted keywords (the first   *)
(* twenty) and, as for the full text, its HR relevance.  The later groups  *)
(* are processed the same way.                                             *)

comprehensiveLegalContent ==
    << [ title |-> "Employment Act 1955 (Act 265) - Complete Text",
         category |-> "Employment Law",
         sourceUrl |-> "https://lom.agc.gov.my/act-view.php?type=print&act=265",
         content |-> "EMPLOYMENT ACT 1955 (ACT 265)\n\nPART I - PRELIMINARY\nSection 1 - Short title and application\nThis Act may be cited as the Employment Act 1955 and shall apply to Peninsular Malaysia.\n\nSection 2 - Interpretation\nIn this Act, unless the context otherwise requires:\n\"employee\" means any person who has entered into a contract of service with an employer",
         keywords |-> << "employment", "termination", "notice", "wages", "overtime",
                         "annual leave", "maternity", "hours", "contract" >> ],
       [ title |-> "Personal Data Protection Act 2010 (Act 709) - Complete Provisions",
         category |-> "Data Protection",
         sourceUrl |-> "https://lom.agc.gov.my/act-view.php?type=print&act=709",
         content |-> "PERSONAL DATA PROTECTION ACT 2010 (ACT 709)\n\nPART I - PRELIMINARY\nSection 1 - Short title and commencement\nThis Act may be cited as the Personal Data Protection Act 2010.\n\nSection 4 - Interpretation\nIn this Act, unless the context otherwise requires:\n\"data subject\" means an individual who is the subject of the personal data;\n\"data user\" means a person",
         keywords |-> << "personal data", "protection", "privacy", "consent", "processing",
                         "data subject", "data user", "disclosure", "commissioner" >> ],
       [ title |-> "Industrial Relations Act 1967 (Act 177) - Dispute Resolution",
         category |-> "Employment Law",
         sourceUrl |-> "https://lom.agc.gov.my/act-view.php?type=print&act=177",
         content |-> "INDUSTRIAL RELATIONS ACT 1967 (ACT 177)\n\nPART I - PRELIMINARY\nSection 1 - Short title and application\nThis Act may be cited as the Industrial Relations Act 1967.\n\nSection 2 - Interpretation\nIn this Act, unless the context otherwise requires:\n\"trade dispute\" means any dispute between employers and workmen or between workmen and workmen which is connected with the employment",
         keywords |-> << "industrial relations", "trade dispute", "dismissal", "reinstatement",
                         "compensation", "strike", "collective agreement", "workman" >> ] >>

ContentLimit == 50000
ExcerptLength == 200

\* The document processLegalContent builds from one content entry.
processedDocument(content) ==
    LET text == IF Len(content.content) > ContentLimit
                THEN Substring(content.content, 0, ContentLimit) ELSE content.content
        extractedKeywords == extractKeywords(text)
    IN  [ category |-> content.category,
          lawTitle |-> content.title,
          excerpt |-> Substring(text, 0, ExcerptLength) \o "...",
          sourceUrl |-> content.sourceUrl,
          keywords |-> Dedupe(content.keywords \o extractedKeywords),
          onboardingRelevance |-> isHRRelevant(text, content.title),
          useInClarification |-> isHRRelevant(text, content.title),
          synonyms |-> generateSynonyms(content.title) ]

\* The documents of a complete ingestion run, in the order they are saved.
IngestedDocuments ==
    [ i \in 1..Len(comprehensiveLegalContent) |->
        processedDocument(comprehensiveLegalContent[i]) ]

\* A content entry outside the predefined ones that is not HR-relevant: none
\* of HR_ONBOARDING_TRIGGERS occurs in it.
otherLegalContent ==
    [ title |-> "Road Transport Rules 2020",
      category |-> "Transport",
      sourceUrl |-> "https://www.jpj.gov.my/road-transport-rules",
      content |-> "Vehicle licensing rules for drivers and vehicle owners.",
      keywords |-> << "vehicle", "licensing" >> ]

\* The library after an ingestion run and one more saveLegalDocument, of the
\* document of otherLegalContent.
ExtendedLibrary == Append(IngestedDocuments, processedDocument(otherLegalContent))

-----------------------------------------------------------------------------
(* firebase: the legal library queries.                                    *)

searchableText(doc) ==
    ToLowerCase(doc.lawTitle \o " " \o doc.category \o " "
                \o Join(doc.keywords, " ") \o " " \o Join(doc.synonyms, " "))

DocMatches(doc, searchTerms) ==
    \E k \in 1..Len(searchTerms) : Includes(searchableText(doc), searchTerms[k])

searchLegalLibrary(library, query) ==
    LET searchTerms == Split(ToLowerCase(query), " ")
        Hit(doc) == DocMatches(doc, searchTerms)
    IN  SelectSeq(library, Hit)

\* getHRRelevantLegalDocs without its filter.
MutantGetHRRelevantLegalDocs(library) == library

getHRRelevantLegalDocs(library) ==
    LET Relevant(doc) == doc.onboardingRelevance
    IN  SelectSeq(library, Relevant)


-----------------------------------------------------------------------------
(* company-metadata: the company store.                                    *)

desariaData ==
    [ companyId |-> "desaria_group",
      companyName |-> "Desaria Group",
      contactEmail |-> "onboarding@witventure.com",
      policies |-> [ leave |-> "14 days annual leave, no carry-forward",
                     probation |-> "3 months with monthly review",
                     termination |-> "1 month notice or salary in lieu",
                     training |-> "Every new staff must attend 7-day induction",
                     overtime |-> "Paid hourly, only after 48 hours/week",
                     conduct |-> "Follow PDPA, zero tolerance for harassment" ] ]

\* The data the callers of saveCompanyMetadata pass: a revision of the Desaria
\* Group record createDesariaGroupMetadata saves, and a second company.
CompanyInputs ==
    { [ desariaData EXCEPT !.policies.termination = "2 months notice" ],
      [ companyId |-> "acme",
        companyName |-> "Acme",
        contactEmail |-> "hr@acme.example",
        policies |-> [ leave |-> "10 days", probation |-> "6 months",
                       termination |-> "2 weeks notice", training |-> "none",
                       overtime |-> "none", conduct |-> "code of conduct" ] ] }

CompanyIds == { d.companyId : d \in CompanyInputs \cup { desariaData } }

\* Array.prototype.findIndex, 0 when absent (indices are 1-based here).
FindCompanyIndex(store, companyId) ==
    IF \E i \in 1..Len(store) : store[i].companyId = companyId
    THEN CHOOSE i \in 1..Len(store) :
            /\ store[i].companyId = companyId
            /\ \A j \in 1..(i - 1) : store[j].companyId # companyId
    ELSE 0

\* saveCompanyMetadata stamping createdAt anew on every write.
MutantSaveCompanyMetadata(store, data, now) ==
    LET existingIndex == FindCompanyIndex(store, data.companyId)
        companyData ==
            [ companyId |-> data.companyId,
              companyName |-> data.companyName,
              contactEmail |-> data.contactEmail,
              policies |-> data.policies,
              createdAt |-> now,
              lastUpdated |-> now ]
    IN  IF existingIndex >= 1
        THEN [ store EXCEPT ![existingIndex] = companyData ]
        ELSE Append(store, companyData)

\* The store after saveCompanyMetadata(data) at time now.
saveCompanyMetadata(store, data, now) ==
    LET existingIndex == FindCompanyIndex(store, data.companyId)
        companyData ==
            [ companyId |-> data.companyId,
              companyName |-> data.companyName,
              contactEmail |-> data.contactEmail,
              policies |-> data.policies,
              createdAt |-> IF existingIndex >= 1 THEN store[existingIndex].createdAt ELSE now,
              lastUpdated |-> now ]
    IN  IF existingIndex >= 1
        THEN [ store EXCEPT ![existingIndex] = companyData ]
        ELSE Append(store, companyData)

getCompanyMetadata(store, companyId) ==
    LET i == FindCompanyIndex(store, companyId)
    IN  IF i >= 1 THEN store[i] ELSE NoValue

\* The six fields of CompanyPoliciesSchema, in declaration order.
PolicyFields == << "leave", "probation", "termination", "training", "overtime", "conduct" >>

PolicyCallout(company, field) ==
    "\n\n**" \o company.companyName \o " Policy:** " \o company.policies[field]

contextualizeWithCompanyPolicy(store, companyId, trainingTopic, baseContent) ==
    LET company == getCompanyMetadata(store, companyId)
        topic == ToLowerCase(trainingTopic)
        Add(cond, field) == IF cond THEN PolicyCallout(company, field) ELSE ""
    IN  IF company = NoValue THEN baseContent
        ELSE baseContent
             \o Add(Includes(topic, "leave"), "leave")
             \o Add(Includes(topic, "probation"), "probation")
             \o Add(Includes(topic, "termination"), "termination")
             \o Add(Includes(topic, "training") \/ Includes(topic, "induction"), "training")
             \o Add(Includes(topic, "overtime"), "overtime")
             \o Add(Includes(topic, "conduct") \/ Includes(topic, "harassment"), "conduct")


-----------------------------------------------------------------------------
(* enhanced-lesson-plan: topic resolution, legal content, company context. *)
(* Confidence is counted in tenths: 9 is 0.9, 7 is 0.7, 5 is 0.5.          *)

ConfidenceMany == 9
ConfidenceSingle == 7
ConfidenceFallback == 5
ConfidenceNone == 0
SuggestedLimit == 3

\* The fallback filter of resolveTrainingTopic over the HR-relevant documents.
generalMatch(hrDocs, originalTopic) ==
    LET Hit(doc) == \E k \in 1..Len(doc.keywords) :
                        Includes(ToLowerCase(originalTopic), ToLowerCase(doc.keywords[k]))
    IN  SelectSeq(hrDocs, Hit)

\* resolveTrainingTopic with the high band reserved for more than two matches.
MutantResolveTrainingTopic(relevantDocs, hrDocs, originalTopic) ==
    IF Len(relevantDocs) = 0
    THEN LET matched == generalMatch(hrDocs, originalTopic)
         IN  IF Len(matched) = 0
             THEN [ clarifiedTopic |-> originalTopic,
                    suggestedLaws |-> << >>,
                    confidence |-> ConfidenceNone ]
             ELSE [ clarifiedTopic |-> matched[1].category,
                    suggestedLaws |-> Slice(matched, SuggestedLimit),
                    confidence |-> ConfidenceFallback ]
    ELSE [ clarifiedTopic |-> IF relevantDocs[1].category # ""
                              THEN relevantDocs[1].category ELSE originalTopic,
           suggestedLaws |-> Slice(relevantDocs, SuggestedLimit),
           confidence |-> IF Len(relevantDocs) > 2 THEN ConfidenceMany ELSE ConfidenceSingle ]

\* resolveTrainingTopic, given what its two library reads returned; hrDocs is
\* read (and used) only when the direct search returned nothing.
resolveTrainingTopic(relevantDocs, hrDocs, originalTopic) ==
    IF Len(relevantDocs) = 0
    THEN LET matched == generalMatch(hrDocs, originalTopic)
         IN  IF Len(matched) = 0
             THEN [ clarifiedTopic |-> originalTopic,
                    suggestedLaws |-> << >>,
                    confidence |-> ConfidenceNone ]
             ELSE [ clarifiedTopic |-> matched[1].category,
                    suggestedLaws |-> Slice(matched, SuggestedLimit),
                    confidence |-> ConfidenceFallback ]
    ELSE [ clarifiedTopic |-> IF relevantDocs[1].category # ""
                              THEN relevantDocs[1].category ELSE originalTopic,
           suggestedLaws |-> Slice(relevantDocs, SuggestedLimit),
           confidence |-> IF Len(relevantDocs) >= 2 THEN ConfidenceMany ELSE ConfidenceSingle ]

KeywordsShown == 5

FormatLegalDoc(doc) ==
    "\n**" \o doc.lawTitle \o "**\nCategory: " \o doc.category
    \o "\nKey Provisions: " \o doc.excerpt
    \o "\nKeywords: " \o Join(Slice(doc.keywords, KeywordsShown), ", ")
    \o "\nSource: " \o doc.sourceUrl \o "\n"

\* Relevance scores in tenths: 10 is 1.0, 7 is 0.7.
ScoreRelevant == 10
ScoreOther == 7

\* fetchLegalContent, given what its library search returned.
fetchLegalContent(relevantDocs) ==
    LET Prioritized(doc) == doc.onboardingRelevance \/ doc.useInClarification
        prioritizedDocs == SelectSeq(relevantDocs, Prioritized)
        finalDocs == IF Len(prioritizedDocs) > 0 THEN prioritizedDocs
                     ELSE Slice(relevantDocs, SuggestedLimit)
    IN  [ laws |-> finalDocs,
          legalText |-> Join([ i \in 1..Len(finalDocs) |-> FormatLegalDoc(finalDocs[i]) ], "\n"),
          references |-> [ i \in 1..Len(finalDocs) |->
                            [ lawTitle |-> finalDocs[i].lawTitle,
                              sourceUrl |-> finalDocs[i].sourceUrl,
                              relevanceScore |-> IF finalDocs[i].onboardingRelevance
                                                 THEN ScoreRelevant ELSE ScoreOther ] ] ]

Policy(companyData, field) ==
    [ policyType |-> field, policyText |-> companyData.policies[field] ]

\* The policy fields fetchCompanyContext pushes for a training focus, before
\* its all-policies fallback.
triggeredPolicies(companyData, trainingFocus) ==
    LET focusLower == ToLowerCase(trainingFocus)
        Pick(cond, field) == IF cond THEN << Policy(companyData, field) >> ELSE << >>
    IN  Pick(Includes(focusLower, "leave") \/ Includes(focusLower, "vacation"), "leave")
        \o Pick(Includes(focusLower, "probation") \/ Includes(focusLower, "trial"), "probation")
        \o Pick(Includes(focusLower, "termination") \/ Includes(focusLower, "dismissal"), "termination")
        \o Pick(Includes(focusLower, "training") \/ Includes(focusLower, "induction"), "training")
        \o Pick(Includes(focusLower, "overtime") \/ Includes(focusLower, "hours"), "overtime")
        \o Pick(Includes(focusLower, "conduct") \/ Includes(focusLower, "harassment")
                \/ Includes(focusLower, "ethics"), "conduct")

\* relevantPolicies without the all-policies fallback.
MutantRelevantPolicies(companyData, trainingFocus) ==
    triggeredPolicies(companyData, trainingFocus)

relevantPolicies(companyData, trainingFocus) ==
    LET triggered == triggeredPolicies(companyData, trainingFocus)
    IN  IF Len(triggered) = 0
        THEN [ i \in 1..Len(PolicyFields) |-> Policy(companyData, PolicyFields[i]) ]
        ELSE triggered

\* fetchCompanyContext: companyData is what its getCompanyMetadata read
\* returned, store is the company store when contextualizeWithCompanyPolicy
\* reads it again.
fetchCompanyContext(companyData, store, companyId, trainingFocus) ==
    IF companyData = NoValue
    THEN [ companyName |-> "Unknown Company",
           policies |-> << >>,
           contextualizedContent |-> "" ]
    ELSE [ companyName |-> companyData.companyName,
           policies |-> relevantPolicies(companyData, trainingFocus),
           contextualizedContent |->
               contextualizeWithCompanyPolicy(store, companyId, trainingFocus,
                                              "Training focus: " \o trainingFocus) ]


-----------------------------------------------------------------------------
(* quiz-generator: the quiz templates, generateQuizForModule, validateQuiz. *)

Quiz(question, options, correctAnswer, explanation, reference) ==
    [ question |-> question, options |-> options, correctAnswer |-> correctAnswer,
      explanation |-> explanation, sourceRef |-> reference ]

ModuleContent(module) == module.title \o " " \o module.summary

\* The curated distractors of generateDistractors for the shape of the answer.
curatedDistractors(correctAnswer) ==
    LET answerLower == ToLowerCase(correctAnswer)
    IN  IF Includes(answerLower, "month") THEN << "2 weeks", "3 months", "6 months" >>
        ELSE IF Includes(answerLower, "week") THEN << "3 days", "1 month", "2 weeks" >>
        ELSE IF Includes(answerLower, "day") THEN << "1 week", "2 weeks", "1 month" >>
        ELSE IF answerLower = "yes" \/ answerLower = "true"
        THEN << "No", "Only in certain cases", "Depends on circumstances" >>
        ELSE IF answerLower = "no" \/ answerLower = "false"
        THEN << "Yes", "Only with approval", "Under specific conditions" >>
        ELSE IF Includes(answerLower, "8 hours") THEN << "6 hours", "10 hours", "12 hours" >>
        ELSE IF Includes(answerLower, "48 hours") THEN << "40 hours", "44 hours", "50 hours" >>
        ELSE IF Includes(answerLower, "management corporation")
        THEN << "Joint Management Body", "Strata Committee", "Building Manager" >>
        ELSE IF Includes(answerLower, "joint management body")
        THEN << "Management Corporation", "Residents Committee", "Property Manager" >>
        ELSE IF Includes(answerLower, "consent")
        THEN << "Authorization", "Permission", "Approval" >>
        ELSE IF Includes(answerLower, "written notice")
        THEN << "Verbal notification", "Email notice", "SMS notification" >>
        ELSE << >>

genericOptions ==
    << "Not specified", "At management discretion", "As per company policy",
       "Subject to approval", "Depends on circumstances", "Not applicable", "Under review" >>

DistractorCount == 3

\* The lists the padding loop can end with: each turn draws a filler at
\* random and pushes it unless it is already chosen or is the answer.
RECURSIVE PaddedDistractors(_, _)
PaddedDistractors(distractors, correctAnswer) ==
    IF Len(distractors) >= DistractorCount THEN { distractors }
    ELSE UNION { PaddedDistractors(Append(distractors, option), correctAnswer) :
                    option \in { g \in Range(genericOptions) :
                                    g \notin Range(distractors) /\ g # correctAnswer } }

\* generateDistractors, as the set of lists a call can return.
generateDistractors(correctAnswer, context) ==
    { Slice(distractors, DistractorCount) :
        distractors \in PaddedDistractors(curatedDistractors(correctAnswer), correctAnswer) }

\* generateEmploymentQuiz looking for "termination" as written, without
\* lowering the content.
MutantGenerateEmploymentQuiz(module) ==
    IF /\ Includes(ModuleContent(module), "termination")
       /\ \/ Includes(ModuleContent(module), "1 month")
          \/ Includes(ModuleContent(module), "1-month")
    THEN Quiz("What is the standard notice period for employment termination?",
              << "2 weeks", "1 month", "3 months", "Immediate" >>,
              "1 month",
              "Most employment terminations require 1 month notice or payment in lieu, as specified in the Employment Act and company policies.",
              module.reference)
    ELSE NoValue

generateEmploymentQuiz(module) ==
    LET content == ModuleContent(module)
        lower == ToLowerCase(content)
    IN  IF /\ Includes(lower, "termination")
           /\ (Includes(content, "1 month") \/ Includes(content, "1-month"))
        THEN Quiz("What is the standard notice period for employment termination?",
                  << "2 weeks", "1 month", "3 months", "Immediate" >>,
                  "1 month",
                  "Most employment terminations require 1 month notice or payment in lieu, as specified in the Employment Act and company policies.",
                  module.reference)
        ELSE IF Includes(lower, "hours") \/ Includes(lower, "overtime")
        THEN Quiz("What is the maximum normal working hours per day under Malaysian law?",
                  << "6 hours", "8 hours", "10 hours", "12 hours" >>,
                  "8 hours",
                  "The Employment Act 1955 specifies that normal working hours shall not exceed 8 hours per day or 48 hours per week.",
                  module.reference)
        ELSE IF Includes(lower, "leave")
        THEN Quiz("What is the minimum annual leave entitlement for employees with less than 2 years service?",
                  << "6 days", "8 days", "12 days", "14 days" >>,
                  "8 days",
                  "Under the Employment Act 1955, employees with less than 2 years of service are entitled to a minimum of 8 days annual leave.",
                  module.reference)
        ELSE NoValue

generateStrataQuiz(module) ==
    LET lower == ToLowerCase(ModuleContent(module))
    IN  IF ~(Includes(lower, "strata") \/ Includes(lower, "management")) THEN NoValue
        ELSE IF Includes(lower, "maintenance")
        THEN Quiz("Who is responsible for maintaining common property in a strata development?",
                  << "Individual owners", "Management Corporation", "Developer", "Local council" >>,
                  "Management Corporation",
                  "The Strata Management Act 2013 assigns responsibility for maintaining common property to the Management Corporation (MC) or Joint Management Body (JMB).",
                  module.reference)
        ELSE IF Includes(lower, "charges") \/ Includes(lower, "fees")
        THEN Quiz("How are strata management charges typically apportioned?",
                  << "Equally among all units", "Based on share units", "By unit size only", "At flat rate" >>,
                  "Based on share units",
                  "Strata management charges are apportioned based on the share units allocated to each parcel as specified in the strata title.",
                  module.reference)
        ELSE NoValue

generateDataProtectionQuiz(module) ==
    LET lower == ToLowerCase(ModuleContent(module))
    IN  IF ~(Includes(lower, "data") \/ Includes(lower, "pdpa")) THEN NoValue
        ELSE IF Includes(lower, "consent")
        THEN Quiz("Under the PDPA 2010, when can personal data be processed without consent?",
                  << "Never", "For legal compliance", "With supervisor approval", "During business hours" >>,
                  "For legal compliance",
                  "The PDPA allows processing without consent when necessary for compliance with legal obligations or for other specified lawful purposes.",
                  module.reference)
        ELSE IF Includes(lower, "notice")
        THEN Quiz("What must data users inform data subjects about when collecting personal data?",
                  << "Only the collection purpose", "Purpose and potential disclosures", "Just storage duration", "Only contact details" >>,
                  "Purpose and potential disclosures",
                  "The PDPA requires data users to inform data subjects about the purpose of collection, potential disclosures, and their rights regarding the data.",
                  module.reference)
        ELSE NoValue

generateCompanyPolicyQuiz(module, companyName) ==
    LET content == ModuleContent(module)
        lower == ToLowerCase(content)
    IN  IF ~(Includes(lower, "desaria") \/ Includes(lower, "company policy")) THEN NoValue
        ELSE IF Includes(content, "1 month notice")
        THEN Quiz("What is " \o companyName \o "'s termination notice requirement?",
                  << "2 weeks notice", "1 month notice or salary in lieu", "3 months notice", "Immediate termination" >>,
                  "1 month notice or salary in lieu",
                  companyName \o " requires 1 month notice or payment of salary in lieu for employment termination, as per their HR policy.",
                  module.reference)
        ELSE IF Includes(lower, "harassment")
        THEN Quiz("What is " \o companyName \o "'s policy on workplace harassment?",
                  << "Case-by-case basis", "Zero tolerance", "Warning system", "Mediation first" >>,
                  "Zero tolerance",
                  companyName \o " maintains a zero tolerance policy for harassment and ensures compliance with PDPA and professional conduct standards.",
                  module.reference)
        ELSE IF Includes(lower, "7-day induction")
        THEN Quiz("What is the duration of " \o companyName \o "'s mandatory induction program?",
                  << "3 days", "5 days", "7 days", "2 weeks" >>,
                  "7 days",
                  companyName \o " requires every new staff member to attend a comprehensive 7-day induction program.",
                  module.reference)
        ELSE NoValue

GenericWordLength == 4
GenericMinWords == 3
GenericExcerpt == 50

\* generateGenericQuiz naming as the correct answer the excerpt without the
\* ellipsis that the first option carries.
MutantGenerateGenericQuiz(module) ==
    LET LongWord(word) == Len(word) > GenericWordLength
        words == SelectSeq(Split(module.summary, " "), LongWord)
        excerpt == Substring(module.summary, 0, GenericExcerpt)
    IN  IF Len(words) < GenericMinWords THEN NoValue
        ELSE Quiz("What is the main focus of \"" \o module.title \o "\"?",
                  << excerpt \o "...", "General compliance requirements",
                     "Administrative procedures", "Training documentation" >>,
                  excerpt,
                  "This module focuses on " \o ToLowerCase(module.title)
                      \o ", covering the key aspects described in the training content.",
                  module.reference)

generateGenericQuiz(module) ==
    LET LongWord(word) == Len(word) > GenericWordLength
        words == SelectSeq(Split(module.summary, " "), LongWord)
        excerpt == Substring(module.summary, 0, GenericExcerpt) \o "..."
    IN  IF Len(words) < GenericMinWords THEN NoValue
        ELSE Quiz("What is the main focus of \"" \o module.title \o "\"?",
                  << excerpt, "General compliance requirements",
                     "Administrative procedures", "Training documentation" >>,
                  excerpt,
                  "This module focuses on " \o ToLowerCase(module.title)
                      \o ", covering the key aspects described in the training content.",
                  module.reference)

MinSummaryLength == 20

\* The safety check skipping only modules that fail both tests.
MutantIsVagueModule(module) == Len(module.summary) < MinSummaryLength /\ module.title = ""

\* The safety check at the head of generateQuizForModule.
IsVagueModule(module) == Len(module.summary) < MinSummaryLength \/ module.title = ""

\* generateQuizForModule as the list of templates it calls, in call order,
\* each with the quiz (or NoValue) the template returns; the list stops at the
\* first template that yields a quiz.
RECURSIVE TryTemplates(_, _, _)
TryTemplates(module, companyContext, k) ==
    LET name == << "employment", "strata", "data-protection", "company-policy", "generic" >>[k]
        skipped == name = "company-policy" /\ companyContext = NoValue
        quiz == CASE name = "employment" -> generateEmploymentQuiz(module)
                  [] name = "strata" -> generateStrataQuiz(module)
                  [] name = "data-protection" -> generateDataProtectionQuiz(module)
                  [] name = "company-policy" ->
                        IF skipped THEN NoValue
                        ELSE generateCompanyPolicyQuiz(module, companyContext.companyName)
                  [] OTHER -> generateGenericQuiz(module)
        here == IF skipped THEN << >> ELSE << [ template |-> name, quiz |-> quiz ] >>
    IN  IF quiz # NoValue \/ name = "generic" THEN here
        ELSE here \o TryTemplates(module, companyContext, k + 1)

templatesTried(module, companyContext) ==
    IF IsVagueModule(module) THEN << >> ELSE TryTemplates(module, companyContext, 1)

\* generateQuizForModule consulting the generic template ahead of the
\* domain templates.
MutantGenerateQuizForModule(module, legalContext, companyContext) ==
    IF IsVagueModule(module) THEN NoValue
    ELSE IF generateGenericQuiz(module) # NoValue THEN generateGenericQuiz(module)
    ELSE IF Len(TryTemplates(module, companyContext, 1)) = 0 THEN NoValue
    ELSE TryTemplates(module, companyContext, 1)[Len(TryTemplates(module, companyContext, 1))].quiz

generateQuizForModule(module, legalContext, companyContext) ==
    LET tried == templatesTried(module, companyContext)
    IN  IF Len(tried) = 0 THEN NoValue ELSE tried[Len(tried)].quiz

MinQuestionLength == 10
MinOptions == 3
MaxOptions == 4
MinExplanationLength == 20

\* validateQuiz without the check for duplicate options.
MutantValidateQuiz(quiz) ==
    [ isValid |-> /\ Len(quiz.question) >= MinQuestionLength
                  /\ Includes(quiz.question, "?")
                  /\ Len(quiz.options) >= MinOptions
                  /\ Len(quiz.options) <= MaxOptions
                  /\ quiz.correctAnswer \in Range(quiz.options)
                  /\ Len(quiz.explanation) >= MinExplanationLength,
      issues |-> << >> ]

validateQuiz(quiz) ==
    LET issues ==
            (IF Len(quiz.question) < MinQuestionLength THEN << "Question too short" >> ELSE << >>)
            \o (IF ~Includes(quiz.question, "?") THEN << "Question missing question mark" >> ELSE << >>)
            \o (IF Len(quiz.options) < MinOptions \/ Len(quiz.options) > MaxOptions
                THEN << "Invalid number of options (must be 3-4)" >> ELSE << >>)
            \o (IF quiz.correctAnswer \notin Range(quiz.options)
                THEN << "Correct answer not found in options" >> ELSE << >>)
            \o (IF Cardinality(Range(quiz.options)) # Len(quiz.options)
                THEN << "Duplicate options found" >> ELSE << >>)
            \o (IF Len(quiz.explanation) < MinExplanationLength
                THEN << "Explanation too short" >> ELSE << >>)
    IN  [ isValid |-> Len(issues) = 0, issues |-> issues ]


\* enhanceModuleWithQuiz: the TrainingModule, with a quiz of NoValue when none
\* is generated.
enhanceModuleWithQuiz(moduleTitle, moduleSummary, moduleReference, legalContext, companyContext) ==
    [ title |-> moduleTitle,
      summary |-> moduleSummary,
      reference |-> moduleReference,
      quiz |-> generateQuizForModule(
                   [ title |-> moduleTitle, summary |-> moduleSummary,
                     reference |-> moduleReference ],
                   legalContext, companyContext),
      completed |-> FALSE ]

-----------------------------------------------------------------------------
(* enhanced-lesson-plan: enhanceLessonPlanWithQuizzes.                     *)

IsSpace(c) == c = " " \/ c = "\n" \/ c = "\t"

\* String.prototype.trim
Trim(s) ==
    IF \A i \in 1..Len(s) : IsSpace(CharAt(s, i)) THEN ""
    ELSE LET first == CHOOSE i \in 1..Len(s) :
                        ~IsSpace(CharAt(s, i)) /\ \A j \in 1..(i - 1) : IsSpace(CharAt(s, j))
             last == CHOOSE i \in 1..Len(s) :
                        ~IsSpace(CharAt(s, i)) /\ \A j \in (i + 1)..Len(s) : IsSpace(CharAt(s, j))
         IN  SubSeq(s, first, last)

StartsWith(s, prefix) == Len(s) >= Len(prefix) /\ SubSeq(s, 1, Len(prefix)) = prefix

SummaryLookahead == 2

\* The summary the loop collects from the lines after module line i.
RECURSIVE CollectSummary(_, _, _)
CollectSummary(lines, i, j) ==
    IF j > Len(lines) \/ j > i + SummaryLookahead THEN ""
    ELSE LET nextLine == Trim(lines[j])
         IN  (IF /\ nextLine # ""
                 /\ ~StartsWith(nextLine, "- ")
                 /\ ~StartsWith(nextLine, "#")
                 /\ ~StartsWith(nextLine, ">")
              THEN nextLine \o " " ELSE "")
             \o CollectSummary(lines, i, j + 1)

\* The module the loop builds for line i, which starts with "- ".
ModuleOfLine(lines, i, legalContent, companyContext, companyName) ==
    LET moduleTitle == Trim(Substring(Trim(lines[i]), 2, Len(lines[i])))
        collected == CollectSummary(lines, i, i + 1)
        moduleSummary ==
            IF Len(collected) < MinSummaryLength
            THEN "Training module covering " \o ToLowerCase(moduleTitle)
                 \o " concepts and practical applications."
            ELSE collected
        legalRef == IF Len(legalContent) > 0 THEN legalContent[1].sourceUrl
                    ELSE "general_training"
        reference ==
            IF /\ companyContext # NoValue
               /\ \/ Includes(ToLowerCase(moduleTitle), "policy")
                  \/ Includes(ToLowerCase(moduleTitle), ToLowerCase(companyName))
            THEN "companyMetadata/" \o (IF companyContext.companyId # ""
                                        THEN companyContext.companyId ELSE "company")
            ELSE legalRef
    IN  [ title |-> moduleTitle, summary |-> Trim(moduleSummary), reference |-> reference ]

\* The lines pushed for an accepted quiz.  The decorative emoji of the source
\* are left out of the literals, the code fence is written ~~~ and the
\* check mark of the correct option is written [correct].
QuizBlock(quiz) ==
    << "", "  **Quick Knowledge Check:**", "  *" \o quiz.question \o "*", "  ~~~" >>
    \o [ idx \in 1..Len(quiz.options) |->
            "  " \o CharAt(UpperChars, idx) \o ". " \o quiz.options[idx] \o " "
            \o (IF quiz.options[idx] = quiz.correctAnswer THEN "[correct]" ELSE "  ") ]
    \o << "  ~~~", "  **Explanation:** " \o quiz.explanation, "" >>

\* The check the loop makes on a generated quiz: it is kept when it exists
\* and validateQuiz accepts it, and is NoValue otherwise.
AcceptQuiz(quiz) ==
    IF quiz = NoValue THEN NoValue
    ELSE IF validateQuiz(quiz).isValid THEN quiz ELSE NoValue

\* The accepted quiz of line i, or NoValue when the line is no module line,
\* no quiz is generated, or the quiz is invalid.
AcceptedQuiz(lines, i, legalContent, companyContext, companyName) ==
    IF ~StartsWith(Trim(lines[i]), "- ") THEN NoValue
    ELSE AcceptQuiz(generateQuizForModule(
                        ModuleOfLine(lines, i, legalContent, companyContext, companyName),
                        legalContent, companyContext))

\* One turn of the loop pushing the head of a quiz block for a module
\* without a quiz.
MutantEnhanceLine(line, quiz, rest) ==
    [ enhancedLines |->
          << line >> \o (IF quiz = NoValue THEN << "", "  **Quick Knowledge Check:**" >>
                         ELSE QuizBlock(quiz))
          \o rest.enhancedLines,
      quizModules |->
          (IF quiz = NoValue THEN << >> ELSE << quiz >>) \o rest.quizModules ]

\* One turn of the loop: the line, then the block of its accepted quiz.
EnhanceLine(line, quiz, rest) ==
    [ enhancedLines |->
          << line >> \o (IF quiz = NoValue THEN << >> ELSE QuizBlock(quiz))
          \o rest.enhancedLines,
      quizModules |->
          (IF quiz = NoValue THEN << >> ELSE << quiz >>) \o rest.quizModules ]

RECURSIVE EnhanceFrom(_, _, _, _, _)
EnhanceFrom(lines, i, legalContent, companyContext, companyName) ==
    IF i > Len(lines) THEN [ enhancedLines |-> << >>, quizModules |-> << >> ]
    ELSE EnhanceLine(lines[i],
                     AcceptedQuiz(lines, i, legalContent, companyContext, companyName),
                     EnhanceFrom(lines, i + 1, legalContent, companyContext, companyName))

\* What the function returns for the lines and quizzes the loop collected.
EnhancedResult(enhanced) ==
    [ enhancedPlan |-> Join(enhanced.enhancedLines, "\n"),
      quizModules |-> enhanced.quizModules ]

enhanceLessonPlanWithQuizzes(lessonPlan, legalContent, companyContext, companyName) ==
    EnhancedResult(EnhanceFrom(Split(lessonPlan, "\n"), 1, legalContent,
                               companyContext, companyName))


-----------------------------------------------------------------------------
(* test-enhanced-lesson-plan: the planParser the callers pass.             *)

Digits == "0123456789"

IsDigit(c) == \E i \in 1..Len(Digits) : CharAt(Digits, i) = c

\* trimmedLine.match(/^Day \d+:/)
IsDayHeader(line) ==
    /\ StartsWith(line, "Day ")
    /\ \E k \in 5..(Len(line) - 1) :
          /\ \A j \in 5..k : IsDigit(CharAt(line, j))
          /\ CharAt(line, k + 1) = ":"

RECURSIVE ParseFrom(_, _, _, _)
ParseFrom(lines, i, dailyPlans, currentDay) ==
    IF i > Len(lines)
    THEN (IF currentDay # NoValue THEN Append(dailyPlans, currentDay) ELSE dailyPlans)
    ELSE LET trimmedLine == Trim(lines[i])
             header == IsDayHeader(trimmedLine)
             plans == IF header /\ currentDay # NoValue
                      THEN Append(dailyPlans, currentDay) ELSE dailyPlans
             day == IF header
                    THEN [ day |-> Len(plans) + 1, title |-> trimmedLine,
                           modules |-> << >>, sopLinks |-> << >> ]
                    ELSE currentDay
             withModule ==
                 IF StartsWith(trimmedLine, "- ") /\ day # NoValue
                 THEN [ day EXCEPT !.modules =
                          Append(@, [ title |-> Substring(trimmedLine, 2, Len(trimmedLine)),
                                      completed |-> FALSE ]) ]
                 ELSE day
         IN  ParseFrom(lines, i + 1, plans, withModule)

testPlanParser(lessonPlan) == ParseFrom(Split(lessonPlan, "\n"), 1, << >>, NoValue)

-----------------------------------------------------------------------------
(* The inputs of the generation flow and what the prompt may return.       *)

MinDuration == 2
MaxDuration == 7

GenInput(focus, duration, companyId) ==
    [ trainingFocus |-> focus, seniorityLevel |-> "Senior",
      learningScope |-> "Functional Mastery", duration |-> duration,
      companyId |-> companyId, userId |-> "test_user_1" ]

TrainingFocuses ==
    { "", " ", "termination", "terminations", "employment", "xyz123nonsense", "vacation",
      "Overtime Ethics", "vehicles", "strike " }

CompanyChoices == { Undefined, "", "desaria_group", "ghost_co" }

GenerationInputs ==
    { GenInput(f, 5, c) : f \in TrainingFocuses, c \in CompanyChoices }
    \cup { GenInput("termination", d, Undefined) : d \in { 1, 2, 7, 8 } }

\* The inputs of the calls that run while the stores are written.
ConcurrentInputs ==
    { GenInput("termination", 5, "desaria_group"),
      GenInput("xyz123nonsense", 5, Undefined) }

\* The input schema with the lower duration bound one day too low.
MutantValidInput(input) ==
    /\ input.duration >= MinDuration - 1
    /\ input.duration <= MaxDuration

\* EnhancedGenerateLessonPlanInputSchema, for the fields the inputs vary.
ValidInput(input) ==
    /\ input.duration >= MinDuration
    /\ input.duration <= MaxDuration

\* What enhancedPrompt resolves to: nothing, an empty plan, or a plan text.
PromptOutputs ==
    { NoValue,
      [ lessonPlan |-> "" ],
      [ lessonPlan |-> "Day 1: Employment Law\n- Termination and notice\nTermination requires 1 month notice.\n- Company policy\nDay 2: Review\n- Q&A\nAsk us all you want to know\n- Wrap up" ] }


-----------------------------------------------------------------------------
(* The state machine.  An action is the code that runs between two awaits  *)
(* that yield to other callers: a store is read or written at the moment   *)
(* its accessor is called, and the caller resumes in a later step.         *)

\* A call not begun.  logBefore is the length the log had when the call
\* began; the flow does not read it.
GenIdle ==
    [ pc |-> "idle", input |-> NoValue, reads |-> << >>, observed |-> NoValue,
      relevantDocs |-> << >>, hrDocs |-> << >>, resolution |-> NoValue,
      legalDocs |-> << >>,
      legal |-> NoValue, companyData |-> NoValue, context |-> NoValue,
      output |-> NoValue, quizCompany |-> NoValue, result |-> NoValue,
      logBefore |-> 0 ]

IngIdle == [ pc |-> "idle", next |-> 1, processedUrls |-> { }, old |-> << >> ]

Init ==
    /\ MOCK_LEGAL_LIBRARY = << >>
    /\ MOCK_COMPANY_METADATA_ENHANCED = << >>
    /\ UNRESOLVED_TOPICS = << >>
    /\ MOCK_ONBOARDING_TRACKS = << >>
    /\ clock = 0
    /\ gen = GenIdle
    /\ calls = 0
    /\ ing = IngIdle
    /\ ingests = 0
    /\ saves = 0
    /\ written = [ id \in CompanyIds |-> NoValue ]
    /\ quizIn = NoValue
    /\ quizOut = NoValue
    /\ call = NoValue

quizVars == << quizIn, quizOut >>
bookVars == << calls, ingests, saves >>

\* Time passes.
Tick ==
    /\ clock < MaxClock
    /\ clock' = clock + 1
    /\ UNCHANGED << MOCK_LEGAL_LIBRARY, MOCK_COMPANY_METADATA_ENHANCED, UNRESOLVED_TOPICS,
                    MOCK_ONBOARDING_TRACKS, gen, ing, written, bookVars, quizVars, call >>

\* What a write of data at the current time leaves in the store and in the
\* write history.
CompanyWrite(data) ==
    /\ MOCK_COMPANY_METADATA_ENHANCED' =
          saveCompanyMetadata(MOCK_COMPANY_METADATA_ENHANCED, data, clock)
    /\ written' = [ written EXCEPT ![data.companyId] =
                      [ first |-> IF @ = NoValue THEN clock ELSE @.first,
                        last |-> clock,
                        data |-> data ] ]

\* A caller saves company metadata.
SaveCompany ==
    /\ saves < MaxSaves
    /\ \E data \in CompanyInputs : CompanyWrite(data)
    /\ saves' = saves + 1
    /\ UNCHANGED << MOCK_LEGAL_LIBRARY, UNRESOLVED_TOPICS, MOCK_ONBOARDING_TRACKS,
                    clock, gen, ing, calls, ingests, quizVars, call >>

----
(* MasterLegalIngestionEngine.execute *)

\* execute() is called: clearLegalLibrary empties the library.
IngStart ==
    /\ ing.pc = "idle"
    /\ ingests < MaxIngests
    /\ ing' = [ pc |-> "processing", next |-> 1, processedUrls |-> { },
                old |-> MOCK_LEGAL_LIBRARY ]
    /\ MOCK_LEGAL_LIBRARY' = << >>
    /\ ingests' = ingests + 1
    /\ UNCHANGED << MOCK_COMPANY_METADATA_ENHANCED, UNRESOLVED_TOPICS,
                    MOCK_ONBOARDING_TRACKS, clock, gen, calls, saves, written, quizVars, call >>

\* processLegalContent for the next content entry: saveLegalDocument pushes.
IngProcess ==
    /\ ing.pc = "processing"
    /\ ing.next <= Len(comprehensiveLegalContent)
    /\ LET content == comprehensiveLegalContent[ing.next]
       IN  IF content.sourceUrl \in ing.processedUrls
           THEN /\ ing' = [ ing EXCEPT !.next = @ + 1 ]
                /\ UNCHANGED MOCK_LEGAL_LIBRARY
           ELSE /\ MOCK_LEGAL_LIBRARY' = Append(MOCK_LEGAL_LIBRARY, IngestedDocuments[ing.next])
                /\ ing' = [ ing EXCEPT !.next = @ + 1,
                                       !.processedUrls = @ \cup { content.sourceUrl } ]
    /\ UNCHANGED << MOCK_COMPANY_METADATA_ENHANCED, UNRESOLVED_TOPICS,
                    MOCK_ONBOARDING_TRACKS, clock, gen, written, bookVars, quizVars, call >>

\* createDesariaGroupMetadata, once every source is processed.  The steps
\* of execute() after it (statistics, validation, tests) only read, so the run
\* ends here.
IngCompany ==
    /\ ing.pc = "processing"
    /\ ing.next > Len(comprehensiveLegalContent)
    /\ CompanyWrite(desariaData)
    /\ ing' = IngIdle
    /\ UNCHANGED << MOCK_LEGAL_LIBRARY, UNRESOLVED_TOPICS, MOCK_ONBOARDING_TRACKS,
                    clock, gen, bookVars, quizVars, call >>

----
(* generateEnhancedLessonPlan *)

CompanyIdGiven(input) == input.companyId # Undefined /\ input.companyId # ""

DefaultContext ==
    [ companyName |-> "Your Company", policies |-> << >>, contextualizedContent |-> "" ]

ReasonNoMatch == "No matching legal content or company policies found"
ReasonNoContent == "Neither legal content nor company policies available"

ErrorValidation == [ error |-> "ValidationError" ]
ErrorGeneration == [ error |-> "Failed to generate enhanced lesson plan content" ]
ErrorInsufficient(focus) ==
    [ error |-> "Cannot generate training plan: No legal content or company policies found for \""
                \o focus \o "\"" ]

\* The log record with the reason stored as the topic.
MutantLogEntry(topic, reason) == [ topic |-> reason, timestamp |-> clock, reason |-> reason ]

LogEntry(topic, reason) == [ topic |-> topic, timestamp |-> clock, reason |-> reason ]

\* What a reader of the legal library sees, and whether an ingestion run was
\* between its clear and its last save at that moment.
Observation ==
    [ library |-> MOCK_LEGAL_LIBRARY,
      ingesting |-> ing.pc = "processing",
      old |-> ing.old ]

\* The safety check failing when either source is missing.
MutantInsufficientContent(legal, context) ==
    legal.legalText = "" \/ context.contextualizedContent = ""

\* The safety check of the flow: no legal text and no company context.
InsufficientContent(legal, context) ==
    legal.legalText = "" /\ context.contextualizedContent = ""

\* The flow from the safety check to the call of the prompt, for a call g
\* whose legal content and company context are fetched and whose log is log.
GroundingCheck(g, log) ==
    IF InsufficientContent(g.legal, g.context)
    THEN /\ UNRESOLVED_TOPICS' =
               Append(log, LogEntry(g.input.trainingFocus, ReasonNoContent))
         /\ gen' = [ g EXCEPT !.pc = "failed",
                              !.result = ErrorInsufficient(g.input.trainingFocus) ]
    ELSE /\ gen' = [ g EXCEPT !.pc = "prompt" ]
         /\ UNRESOLVED_TOPICS' = log

\* The flow handing the training focus as typed, not the clarified topic, to
\* fetchLegalContent.
MutantResolved(resolution) ==
    /\ UNRESOLVED_TOPICS' =
          IF resolution.confidence = ConfidenceNone
          THEN Append(UNRESOLVED_TOPICS, LogEntry(gen.input.trainingFocus, ReasonNoMatch))
          ELSE UNRESOLVED_TOPICS
    /\ gen' = [ gen EXCEPT !.pc = "legal",
                           !.resolution = resolution,
                           !.reads = Append(@, "searchLegalLibrary"),
                           !.observed = Observation,
                           !.legalDocs = searchLegalLibrary(MOCK_LEGAL_LIBRARY,
                                                            gen.input.trainingFocus) ]

\* The flow from the return of resolveTrainingTopic to the search of
\* fetchLegalContent: an unresolved topic is logged, and the library is
\* searched for the clarified topic.
Resolved(resolution) ==
    /\ UNRESOLVED_TOPICS' =
          IF resolution.confidence = ConfidenceNone
          THEN Append(UNRESOLVED_TOPICS, LogEntry(gen.input.trainingFocus, ReasonNoMatch))
          ELSE UNRESOLVED_TOPICS
    /\ gen' = [ gen EXCEPT !.pc = "legal",
                           !.resolution = resolution,
                           !.reads = Append(@, "searchLegalLibrary"),
                           !.observed = Observation,
                           !.legalDocs = searchLegalLibrary(MOCK_LEGAL_LIBRARY,
                                                            resolution.clarifiedTopic) ]

\* The flow is called with one of inputs: the input schema is checked, then
\* resolveTrainingTopic searches the library.
Generate(inputs) ==
    /\ gen.pc \in { "idle", "done", "failed" }
    /\ calls < MaxCalls
    /\ calls' = calls + 1
    /\ \E input \in inputs :
          IF ~ValidInput(input)
          THEN gen' = [ GenIdle EXCEPT !.pc = "failed", !.input = input,
                                       !.result = ErrorValidation,
                                       !.logBefore = Len(UNRESOLVED_TOPICS) ]
          ELSE gen' = [ GenIdle EXCEPT
                          !.pc = "resolve",
                          !.input = input,
                          !.logBefore = Len(UNRESOLVED_TOPICS),
                          !.reads = << "searchLegalLibrary" >>,
                          !.observed = Observation,
                          !.relevantDocs =
                              searchLegalLibrary(MOCK_LEGAL_LIBRARY, input.trainingFocus) ]
    /\ UNCHANGED << MOCK_LEGAL_LIBRARY, MOCK_COMPANY_METADATA_ENHANCED, UNRESOLVED_TOPICS,
                    MOCK_ONBOARDING_TRACKS, clock, ing, ingests, saves, written, quizVars, call >>

\* A call that runs while the stores are written.
GenStart == Generate(ConcurrentInputs)

\* resolveTrainingTopic resumes with the search result: with matches it
\* returns and the flow goes on, without it reads the HR-relevant documents.
GenResolve ==
    /\ gen.pc = "resolve"
    /\ IF Len(gen.relevantDocs) = 0
       THEN /\ gen' = [ gen EXCEPT !.pc = "fallback",
                                   !.reads = Append(@, "getHRRelevantLegalDocs"),
                                   !.observed = Observation,
                                   !.hrDocs = getHRRelevantLegalDocs(MOCK_LEGAL_LIBRARY) ]
            /\ UNCHANGED UNRESOLVED_TOPICS
       ELSE Resolved(resolveTrainingTopic(gen.relevantDocs, << >>, gen.input.trainingFocus))
    /\ UNCHANGED << MOCK_LEGAL_LIBRARY, MOCK_COMPANY_METADATA_ENHANCED,
                    MOCK_ONBOARDING_TRACKS, clock, ing, written, bookVars, quizVars, call >>

\* resolveTrainingTopic resumes with the HR-relevant documents and returns,
\* and the flow goes on.
GenFallback ==
    /\ gen.pc = "fallback"
    /\ Resolved(resolveTrainingTopic(<< >>, gen.hrDocs, gen.input.trainingFocus))
    /\ UNCHANGED << MOCK_LEGAL_LIBRARY, MOCK_COMPANY_METADATA_ENHANCED,
                    MOCK_ONBOARDING_TRACKS, clock, ing, written, bookVars, quizVars, call >>

\* The call with the legal content fetchLegalContent returns.
WithLegal(legal) ==
    IF CompanyIdGiven(gen.input)
    THEN /\ gen' = [ gen EXCEPT
                       !.pc = "company",
                       !.legal = legal,
                       !.reads = Append(@, "getCompanyMetadata"),
                       !.companyData = getCompanyMetadata(MOCK_COMPANY_METADATA_ENHANCED,
                                                          gen.input.companyId) ]
         /\ UNCHANGED UNRESOLVED_TOPICS
    ELSE GroundingCheck([ gen EXCEPT !.legal = legal, !.context = DefaultContext ],
                        UNRESOLVED_TOPICS)

\* fetchLegalContent resumes and returns; with a companyId fetchCompanyContext
\* reads the company store, without one the flow makes its safety check.
GenLegal ==
    /\ gen.pc = "legal"
    /\ WithLegal(fetchLegalContent(gen.legalDocs))
    /\ UNCHANGED << MOCK_LEGAL_LIBRARY, MOCK_COMPANY_METADATA_ENHANCED,
                    MOCK_ONBOARDING_TRACKS, clock, ing, written, bookVars, quizVars, call >>

\* fetchCompanyContext resumes with the company record: it selects the
\* policies, contextualizeWithCompanyPolicy reads the store again, and the
\* flow makes its safety check.
GenCompany ==
    /\ gen.pc = "company"
    /\ GroundingCheck(
          [ gen EXCEPT
              !.reads = IF gen.companyData = NoValue THEN @
                        ELSE Append(@, "getCompanyMetadata"),
              !.context = fetchCompanyContext(gen.companyData,
                                              MOCK_COMPANY_METADATA_ENHANCED,
                                              gen.input.companyId,
                                              gen.resolution.clarifiedTopic) ],
          UNRESOLVED_TOPICS)
    /\ UNCHANGED << MOCK_LEGAL_LIBRARY, MOCK_COMPANY_METADATA_ENHANCED,
                    MOCK_ONBOARDING_TRACKS, clock, ing, written, bookVars, quizVars, call >>

\* The prompt resolves: without a lesson plan the flow throws, with one it
\* reads the company record for the quiz step.
GenPrompt ==
    /\ gen.pc = "prompt"
    /\ \E output \in PromptOutputs :
          IF output = NoValue \/ output = [ lessonPlan |-> "" ]
          THEN gen' = [ gen EXCEPT !.pc = "failed", !.output = output,
                                   !.result = ErrorGeneration ]
          ELSE gen' = [ gen EXCEPT
                          !.pc = "quiz",
                          !.output = output,
                          !.reads = IF CompanyIdGiven(gen.input)
                                    THEN Append(@, "getCompanyMetadata") ELSE @,
                          !.quizCompany =
                              IF CompanyIdGiven(gen.input)
                              THEN getCompanyMetadata(MOCK_COMPANY_METADATA_ENHANCED,
                                                      gen.input.companyId)
                              ELSE NoValue ]
    /\ UNCHANGED << MOCK_LEGAL_LIBRARY, MOCK_COMPANY_METADATA_ENHANCED, UNRESOLVED_TOPICS,
                    MOCK_ONBOARDING_TRACKS, clock, ing, written, bookVars, quizVars, call >>

\* The track stored as already published.
MutantNewTrack(g, parsedPlan) ==
    [ trainingFocus |-> g.input.trainingFocus,
      clarifiedTopic |-> g.resolution.clarifiedTopic,
      duration |-> g.input.duration,
      seniorityLevel |-> g.input.seniorityLevel,
      learningScope |-> g.input.learningScope,
      companyId |-> IF CompanyIdGiven(g.input) THEN g.input.companyId ELSE "default",
      createdBy |-> g.input.userId,
      plan |-> parsedPlan,
      status |-> "published",
      branding |-> [ companyName |-> g.context.companyName ],
      id |-> "track_" \o ToString(clock),
      createdAt |-> clock ]

\* The track saveOnboardingTrack stores for a finished call.
NewTrack(g, parsedPlan) ==
    [ trainingFocus |-> g.input.trainingFocus,
      clarifiedTopic |-> g.resolution.clarifiedTopic,
      duration |-> g.input.duration,
      seniorityLevel |-> g.input.seniorityLevel,
      learningScope |-> g.input.learningScope,
      companyId |-> IF CompanyIdGiven(g.input) THEN g.input.companyId ELSE "default",
      createdBy |-> g.input.userId,
      plan |-> parsedPlan,
      status |-> "draft",
      branding |-> [ companyName |-> g.context.companyName ],
      id |-> "track_" \o ToString(clock),
      createdAt |-> clock ]

\* What the flow stores and returns for the enhanced plan of call g.
Finished(g, enhanced, parsedPlan) ==
    [ track |-> NewTrack(g, parsedPlan),
      result |-> [ lessonPlan |-> enhanced.enhancedPlan,
                   trackId |-> "track_" \o ToString(clock),
                   parsedPlan |-> parsedPlan,
                   legalReferences |-> g.legal.references,
                   companyPolicies |-> g.context.policies,
                   clarifiedTopic |-> g.resolution.clarifiedTopic ] ]

Parsed(g, enhanced) == Finished(g, enhanced, testPlanParser(enhanced.enhancedPlan))

\* saveOnboardingTrack pushing the track onto the legal library array.
MutantFinishCall(finished) ==
    /\ MOCK_LEGAL_LIBRARY' = Append(MOCK_LEGAL_LIBRARY, finished.track)
    /\ gen' = [ gen EXCEPT !.pc = "done", !.result = finished.result ]
    /\ UNCHANGED << MOCK_ONBOARDING_TRACKS, MOCK_COMPANY_METADATA_ENHANCED >>

\* saveOnboardingTrack pushes the track onto the track array, the only store
\* it touches, and the flow returns.
FinishCall(finished) ==
    /\ MOCK_ONBOARDING_TRACKS' = Append(MOCK_ONBOARDING_TRACKS, finished.track)
    /\ gen' = [ gen EXCEPT !.pc = "done", !.result = finished.result ]
    /\ UNCHANGED << MOCK_LEGAL_LIBRARY, MOCK_COMPANY_METADATA_ENHANCED >>

\* The quizzes are added, the plan is parsed, the track is saved and the
\* flow returns.
GenSave ==
    /\ gen.pc = "quiz"
    /\ FinishCall(Parsed(gen, enhanceLessonPlanWithQuizzes(gen.output.lessonPlan,
                                                           gen.legal.references,
                                                           gen.quizCompany,
                                                           gen.context.companyName)))
    /\ UNCHANGED << UNRESOLVED_TOPICS, clock, ing, written, bookVars, quizVars, call >>

Next ==
    \/ Tick
    \/ SaveCompany
    \/ IngStart
    \/ IngProcess
    \/ IngCompany
    \/ GenStart
    \/ GenResolve
    \/ GenFallback
    \/ GenLegal
    \/ GenCompany
    \/ GenPrompt
    \/ GenSave

Spec == Init /\ [][Next]_vars

----
(* The generation flow over stores at rest, for every input.               *)

\* The company store createDesariaGroupMetadata leaves at time 0.
DesariaStore == saveCompanyMetadata(<< >>, desariaData, 0)

InitFlow ==
    /\ MOCK_LEGAL_LIBRARY \in { << >>, IngestedDocuments, ExtendedLibrary }
    /\ MOCK_COMPANY_METADATA_ENHANCED \in { << >>, DesariaStore }
    /\ UNRESOLVED_TOPICS = << >>
    /\ MOCK_ONBOARDING_TRACKS = << >>
    /\ clock = 0
    /\ gen = GenIdle
    /\ calls = 0
    /\ ing = IngIdle
    /\ ingests = 0
    /\ saves = 0
    /\ written = [ id \in CompanyIds |-> NoValue ]
    /\ quizIn = NoValue
    /\ quizOut = NoValue
    /\ call = NoValue

FlowStart == Generate(GenerationInputs)

NextFlow ==
    \/ FlowStart
    \/ GenResolve
    \/ GenFallback
    \/ GenLegal
    \/ GenCompany
    \/ GenPrompt
    \/ GenSave

SpecFlow == InitFlow /\ [][NextFlow]_vars

----
(* generateQuizForModule as a function of its arguments.                   *)

ModuleTitles == { "", "Termination and notice", "Company policy", "Data handling" }

ModuleSummaries ==
    { "",
      "Too short",
      "Employment termination requires 1 month notice.",
      "Desaria company policy: 1 month notice applies.",
      "Personal data consent notice rules apply here",
      "Workplace orientation covering general office procedures",
      "One or two tiny word sets here",
      "General compliance requirements",
      "Strata management covers maintenance and data consent",
      "Termination needs a 1-month notice period." }

ModuleReferences == { Undefined, "general_training" }

ModuleInputs ==
    { [ title |-> t, summary |-> m, reference |-> r ] :
        t \in ModuleTitles, m \in ModuleSummaries, r \in ModuleReferences }

CompanyContexts == { NoValue, DesariaStore[1] }

\* A caller asks for the quiz of a module.
QuizCall ==
    /\ \E module \in ModuleInputs, companyContext \in CompanyContexts :
          /\ quizIn' = [ module |-> module, companyContext |-> companyContext ]
          /\ quizOut' = [ quiz |-> generateQuizForModule(module, << >>, companyContext),
                          tried |-> templatesTried(module, companyContext) ]
    /\ UNCHANGED << MOCK_LEGAL_LIBRARY, MOCK_COMPANY_METADATA_ENHANCED, UNRESOLVED_TOPICS,
                    MOCK_ONBOARDING_TRACKS, clock, gen, ing, written, bookVars, call >>

NextQuiz == QuizCall

SpecQuiz == Init /\ [][NextQuiz]_vars

----
(* The template-driven plan generators of the demonstration scripts:       *)
(* generateLessonPlanWithQuizzes with getDayTitle, getDayModules and       *)
(* getRelevantPolicies, and generateMockEnhancedLessonPlan.  The emoji of  *)
(* the source are left out of the literals.                                *)

\* String.prototype.toUpperCase for one character.
UpperChar(c) ==
    IF \E i \in 1..Len(LowerChars) : CharAt(LowerChars, i) = c
    THEN CharAt(UpperChars, CHOOSE i \in 1..Len(LowerChars) : CharAt(LowerChars, i) = c)
    ELSE c

\* charAt(0).toUpperCase() + slice(1)
Capitalize(s) == IF s = "" THEN "" ELSE UpperChar(CharAt(s, 1)) \o SubSeq(s, 2, Len(s))

\* titles[day - 1] || fallback
TitleOr(titles, day, fallback) == IF day <= Len(titles) THEN titles[day] ELSE fallback

getDayTitle(day, trainingFocus) ==
    LET focus == ToLowerCase(trainingFocus)
        advanced == "Advanced " \o trainingFocus \o " Topics"
    IN  IF Includes(focus, "termination")
        THEN TitleOr(<< "Legal Framework for Employment Termination",
                        "Notice Requirements and Documentation",
                        "Company Policies and Procedures",
                        "Handling Difficult Terminations",
                        "Best Practices and Case Studies" >>, day, advanced)
        ELSE IF Includes(focus, "strata")
        THEN TitleOr(<< "Introduction to Strata Management",
                        "Legal Responsibilities and Compliance",
                        "Practical Management Applications" >>, day, advanced)
        ELSE IF Includes(focus, "data")
        THEN TitleOr(<< "PDPA Fundamentals and Requirements",
                        "Implementation and Compliance" >>, day, advanced)
        ELSE trainingFocus \o " - Day " \o ToString(day)

Module(title, summary, reference) ==
    [ title |-> title, summary |-> summary, reference |-> reference ]

\* The single module getDayModules falls back to.
fallbackModules(trainingFocus) ==
    << Module(trainingFocus \o " Overview",
              "Introduction to " \o trainingFocus \o " concepts and legal requirements.",
              "general_training") >>

\* The modules of a termination day, << >> when the day has none of its own.
terminationModules(day, companyName) ==
    IF day = 1
    THEN << Module("Malaysian Employment Act Overview",
                   "Understanding the legal framework for employment termination under Malaysian law, including grounds for dismissal and procedural requirements.",
                   "https://lom.agc.gov.my/act-view.php?type=print&act=265"),
            Module("Types of Employment Termination",
                   "Different categories of termination including dismissal with cause, redundancy, and voluntary resignation processes.",
                   "https://lom.agc.gov.my/act-view.php?type=print&act=265") >>
    ELSE IF day = 2
    THEN << Module("Notice Period Requirements",
                   "Legal requirements for notice periods, payment in lieu, and documentation needed for proper termination procedures.",
                   "https://lom.agc.gov.my/act-view.php?type=print&act=265"),
            Module(companyName \o " Termination Policy",
                   companyName \o " requires 1 month notice or salary in lieu for all terminations, with mandatory HR review and documentation.",
                   "companyMetadata/" \o Join(Split(ToLowerCase(companyName), " "), "_")) >>
    ELSE << >>

strataModules(day) ==
    IF day = 1
    THEN << Module("Strata Management Act Fundamentals",
                   "Understanding the legal framework for strata property management, including roles of MC and JMB.",
                   "https://www.kpkt.gov.my/strata-regulations-2015"),
            Module("Common Property Maintenance",
                   "Responsibilities for maintaining common property, service charge calculations, and owner obligations.",
                   "https://www.kpkt.gov.my/strata-regulations-2015") >>
    ELSE << >>

dataModules(day) ==
    IF day = 1
    THEN << Module("PDPA 2010 Requirements",
                   "Understanding personal data protection requirements, consent mechanisms, and data subject rights.",
                   "https://lom.agc.gov.my/act-view.php?type=print&act=709"),
            Module("Data Processing Compliance",
                   "Proper procedures for collecting, processing, and storing personal data in compliance with PDPA.",
                   "https://lom.agc.gov.my/act-view.php?type=print&act=709") >>
    ELSE << >>

\* getDayModules: the first topic branch that has modules for the day
\* returns them, every other case falls through to the fallback module.
getDayModules(day, trainingFocus, companyName) ==
    LET focus == ToLowerCase(trainingFocus)
    IN  IF Includes(focus, "termination") /\ terminationModules(day, companyName) # << >>
        THEN terminationModules(day, companyName)
        ELSE IF Includes(focus, "strata") /\ strataModules(day) # << >>
        THEN strataModules(day)
        ELSE IF Includes(focus, "data") /\ dataModules(day) # << >>
        THEN dataModules(day)
        ELSE fallbackModules(trainingFocus)

getRelevantPolicies(companyData, trainingFocus) ==
    LET focus == ToLowerCase(trainingFocus)
        Pick(word, field) ==
            IF Includes(focus, word) /\ companyData.policies[field] # ""
            THEN << Policy(companyData, field) >> ELSE << >>
    IN  Pick("termination", "termination") \o Pick("harassment", "conduct")
        \o Pick("training", "training")

\* The filter of generateLessonPlanWithQuizzes over the whole library.
relevantLegal(legalLibrary, trainingFocus) ==
    LET Hit(doc) == \E k \in 1..Len(doc.keywords) :
                        Includes(ToLowerCase(trainingFocus), ToLowerCase(doc.keywords[k]))
    IN  SelectSeq(legalLibrary, Hit)

\* The days of the mock plan structure, 1..duration.
mockDays(trainingFocus, duration, companyName) ==
    [ day \in 1..duration |->
        [ day |-> "Day " \o ToString(day),
          title |-> getDayTitle(day, trainingFocus),
          modules |-> getDayModules(day, trainingFocus, companyName) ] ]

\* The text added for an accepted quiz.
QuizText(quiz) ==
    "\n  **Quick Knowledge Check:**\n"
    \o "  *" \o quiz.question \o "*\n\n"
    \o "  **Options:**\n"
    \o Join([ idx \in 1..Len(quiz.options) |->
                "  " \o CharAt(UpperChars, idx) \o ". " \o quiz.options[idx]
                \o (IF quiz.options[idx] = quiz.correctAnswer THEN " [correct]" ELSE "")
                \o "\n" ], "")
    \o "\n  **Explanation:** " \o quiz.explanation \o "\n"
    \o (IF quiz.sourceRef # Undefined /\ quiz.sourceRef # ""
        THEN "  **Source:** " \o quiz.sourceRef \o "\n" ELSE "")
    \o "\n"

\* What the inner loop adds for one module of a day: its text and, when a
\* quiz is generated and valid, the quiz entry.
ModuleEntry(dayLabel, module, quiz) ==
    [ text |-> "- " \o module.title \o "\n"
               \o (IF quiz = NoValue THEN "" ELSE QuizText(quiz)),
      quizzes |-> IF quiz = NoValue THEN << >>
                  ELSE << [ dayNumber |-> dayLabel, moduleTitle |-> module.title,
                            quiz |-> quiz ] >> ]

RECURSIVE ModuleEntries(_, _, _, _)
ModuleEntries(day, k, legal, companyContext) ==
    IF k > Len(day.modules) THEN [ text |-> "", quizzes |-> << >> ]
    ELSE LET entry == ModuleEntry(day.day, day.modules[k],
                                  AcceptQuiz(generateQuizForModule(day.modules[k], legal,
                                                                   companyContext)))
             rest == ModuleEntries(day, k + 1, legal, companyContext)
         IN  [ text |-> entry.text \o rest.text, quizzes |-> entry.quizzes \o rest.quizzes ]

RECURSIVE DayEntries(_, _, _, _)
DayEntries(days, d, legal, companyContext) ==
    IF d > Len(days) THEN [ text |-> "", quizzes |-> << >> ]
    ELSE LET modules == ModuleEntries(days[d], 1, legal, companyContext)
             rest == DayEntries(days, d + 1, legal, companyContext)
         IN  [ text |-> "## " \o days[d].day \o ": " \o days[d].title \o "\n\n"
                        \o modules.text \o "\n" \o rest.text,
               quizzes |-> modules.quizzes \o rest.quizzes ]

\* generateLessonPlanWithQuizzes, given the library and the company store
\* its two reads see.
generateLessonPlanWithQuizzes(legalLibrary, store, trainingFocus, duration, companyId) ==
    LET companyData == getCompanyMetadata(store, companyId)
        companyName == IF companyData = NoValue THEN "Company" ELSE companyData.companyName
        legal == relevantLegal(legalLibrary, trainingFocus)
        entries == DayEntries(mockDays(trainingFocus, duration, companyName), 1, legal,
                              companyData)
    IN  [ lessonPlan |-> "# " \o Capitalize(trainingFocus) \o " Training Program\n\n"
                         \o "**Duration:** " \o ToString(duration) \o " days\n"
                         \o "**Company:** " \o companyName \o "\n\n"
                         \o entries.text,
          quizzes |-> entries.quizzes,
          legalReferences |-> [ i \in 1..Len(legal) |->
                                  [ lawTitle |-> legal[i].lawTitle,
                                    sourceUrl |-> legal[i].sourceUrl,
                                    relevanceScore |-> ScoreRelevant ] ],
          companyPolicies |-> IF companyData = NoValue THEN << >>
                              ELSE getRelevantPolicies(companyData, trainingFocus) ]

\* The policies generateMockEnhancedLessonPlan matches for a focus.
mockPolicies(companyData, trainingFocus) ==
    LET focusLower == ToLowerCase(trainingFocus)
        Pick(cond, field) == IF cond THEN << Policy(companyData, field) >> ELSE << >>
    IN  Pick(Includes(focusLower, "termination") \/ Includes(focusLower, "dismissal"), "termination")
        \o Pick(Includes(focusLower, "leave") \/ Includes(focusLower, "vacation"), "leave")
        \o Pick(Includes(focusLower, "conduct") \/ Includes(focusLower, "harassment"), "conduct")
        \o Pick(Includes(focusLower, "training") \/ Includes(focusLower, "induction"), "training")

DefaultSource == "https://lom.agc.gov.my/"

\* The text of the mock plan template.
mockLessonPlan(input, clarifiedTopic, finalDocs, companyPolicies, companyName) ==
    LET Callout(k) == IF Len(companyPolicies) >= k
                      THEN "> **" \o companyName \o " Policy:** " \o companyPolicies[k].policyText
                      ELSE ""
        SourceOf(k) == IF Len(finalDocs) >= k /\ finalDocs[k].sourceUrl # ""
                       THEN finalDocs[k].sourceUrl ELSE DefaultSource
    IN  "# " \o clarifiedTopic \o " Training Program\n\n"
        \o "**Duration:** " \o ToString(input.duration) \o " days\n"
        \o "**Level:** " \o input.seniorityLevel \o "\n"
        \o "**Scope:** " \o input.learningScope \o "\n"
        \o "**Company:** " \o companyName \o "\n\n"
        \o "## Day 1: Legal Framework Introduction\n"
        \o "- Understanding Malaysian " \o clarifiedTopic \o " regulations\n"
        \o "- Key provisions from "
        \o (IF Len(finalDocs) >= 1 /\ finalDocs[1].lawTitle # ""
            THEN finalDocs[1].lawTitle ELSE "relevant legislation") \o "\n"
        \o "- Compliance requirements and obligations\n"
        \o "- Case studies and practical applications\n\n"
        \o Callout(1) \o "\n\n"
        \o "Legal Reference: " \o SourceOf(1) \o "\n\n"
        \o "## Day 2: Practical Implementation\n"
        \o "- Step-by-step compliance procedures\n"
        \o "- Documentation requirements\n"
        \o "- Risk assessment and mitigation\n"
        \o "- Internal controls and monitoring\n\n"
        \o Callout(2) \o "\n\n"
        \o (IF input.duration > 2
            THEN "## Day 3: Advanced Topics\n"
                 \o "- Complex scenarios and edge cases\n"
                 \o "- Integration with existing systems\n"
                 \o "- Stakeholder communication\n"
                 \o "- Continuous improvement processes\n\n"
                 \o Callout(3) \o "\n\n"
                 \o "Legal Reference: " \o SourceOf(2)
            ELSE "")
        \o "\n\n"
        \o (IF input.duration > 3
            THEN "## Day 4: Assessment and Evaluation\n"
                 \o "- Knowledge check and practical exercises\n"
                 \o "- Performance metrics and KPIs\n"
                 \o "- Feedback mechanisms\n"
                 \o "- Certification requirements\n\n"
                 \o "## Day 5: Implementation Planning\n"
                 \o "- Action plan development\n"
                 \o "- Timeline and milestones\n"
                 \o "- Resource allocation\n"
                 \o "- Monitoring and review schedule"
            ELSE "")
        \o "\n\n---\n"
        \o "**Generated with legal accuracy verification and company policy integration**\n"

\* generateMockEnhancedLessonPlan, given the library and the company store
\* its reads see and the time of its Date.now().
generateMockEnhancedLessonPlan(legalLibrary, store, input, now) ==
    LET relevantDocs == searchLegalLibrary(legalLibrary, input.trainingFocus)
        clarifiedTopic == IF Len(relevantDocs) > 0 THEN relevantDocs[1].category
                          ELSE input.trainingFocus
        legal == fetchLegalContent(relevantDocs)
        companyData == IF CompanyIdGiven(input)
                       THEN getCompanyMetadata(store, input.companyId) ELSE NoValue
        companyPolicies == IF companyData = NoValue THEN << >>
                           ELSE mockPolicies(companyData, input.trainingFocus)
        companyName == IF companyData = NoValue THEN "Your Company"
                       ELSE companyData.companyName
    IN  [ lessonPlan |-> mockLessonPlan(input, clarifiedTopic, legal.laws, companyPolicies,
                                        companyName),
          trackId |-> "track_" \o ToString(now),
          legalReferences |-> legal.references,
          companyPolicies |-> companyPolicies,
          clarifiedTopic |-> clarifiedTopic,
          parsedPlan |-> << >> ]

----
(* validateQuiz, generateDistractors, extractKeywords and                  *)
(* categorizeLegalContent as functions of their arguments: the initial     *)
(* state holds the call, the action of the function returns its result.    *)

QuizQuestions ==
    { "Why?", "State the notice period", "What is the notice period?",
      "Really? Yes it is so" }

QuizOptions ==
    { << "1 month", "2 weeks" >>,
      << "1 month", "2 weeks", "3 months" >>,
      << "2 weeks", "1 month", "3 months", "Immediate" >>,
      << "2 weeks", "1 month", "3 months", "Immediate", "6 months" >>,
      << "2 weeks", "1 month", "2 weeks", "Immediate" >>,
      << "2 weeks", "3 months", "Immediate" >> }

QuizExplanations ==
    { "Too short", "Most terminations require 1 month notice." }

QuizInputs ==
    { Quiz(q, o, "1 month", e, Undefined) :
        q \in QuizQuestions, o \in QuizOptions, e \in QuizExplanations }

CorrectAnswers ==
    { "1 month", "3 months", "2 weeks", "1 week", "7 days", "Yes", "no",
      "8 hours", "48 hours", "Management Corporation", "Joint Management Body",
      "Consent", "Written notice", "Zero tolerance", "Not specified" }

KeywordTexts ==
    { "", "   ", "The and of", " Leave\tpolicy\n\nleave POLICY, leave-policy; with shall_not",
      "Termination of contract: the employer shall give notice, and those notices must be given with care.",
      "alpha1 bravo2 charlie3 delta4 echo05 foxtrot6 golf07 hotel8 india9 juliet10 kilo11 lima12 mike13 november14 oscar15 papa16 quebec17 romeo18 sierra19 tango20 uniform21 victor22 alpha1",
      comprehensiveLegalContent[1].content }

CategoryTitles == { "", "Trade and Employment Act", "Road Transport Act" }

CategoryContents ==
    { "", "An audit of COMPANY property", "taxation of data", "trade strata", "nothing of note" }

PureCalls ==
    { [ fn |-> "validateQuiz", quiz |-> q ] : q \in QuizInputs }
    \cup { [ fn |-> "generateDistractors", correctAnswer |-> a, context |-> "" ] :
              a \in CorrectAnswers }
    \cup { [ fn |-> "extractKeywords", text |-> t ] : t \in KeywordTexts }
    \cup { [ fn |-> "categorizeLegalContent", title |-> t, content |-> c ] :
              t \in CategoryTitles, c \in CategoryContents }

InitCalls ==
    /\ MOCK_LEGAL_LIBRARY = << >>
    /\ MOCK_COMPANY_METADATA_ENHANCED = << >>
    /\ UNRESOLVED_TOPICS = << >>
    /\ MOCK_ONBOARDING_TRACKS = << >>
    /\ clock = 0
    /\ gen = GenIdle
    /\ calls = 0
    /\ ing = IngIdle
    /\ ingests = 0
    /\ saves = 0
    /\ written = [ id \in CompanyIds |-> NoValue ]
    /\ quizIn = NoValue
    /\ quizOut = NoValue
    /\ call \in { [ pending |-> c ] : c \in PureCalls }

\* The call returns result.
Return(result) ==
    /\ call' = [ done |-> call.pending, result |-> result ]
    /\ UNCHANGED << MOCK_LEGAL_LIBRARY, MOCK_COMPANY_METADATA_ENHANCED, UNRESOLVED_TOPICS,
                    MOCK_ONBOARDING_TRACKS, clock, gen, ing, written, bookVars, quizVars >>

Pending(fn) ==
    /\ call # NoValue
    /\ "pending" \in DOMAIN call
    /\ call.pending.fn = fn

ValidateQuizCall ==
    /\ Pending("validateQuiz")
    /\ Return(validateQuiz(call.pending.quiz))

GenerateDistractorsCall ==
    /\ Pending("generateDistractors")
    /\ \E distractors \in generateDistractors(call.pending.correctAnswer,
                                                call.pending.context) :
          Return(distractors)

ExtractKeywordsCall ==
    /\ Pending("extractKeywords")
    /\ Return(extractKeywords(call.pending.text))

CategorizeLegalContentCall ==
    /\ Pending("categorizeLegalContent")
    /\ Return(categorizeLegalContent(call.pending.title, call.pending.content))

NextCalls ==
    \/ ValidateQuizCall
    \/ GenerateDistractorsCall
    \/ ExtractKeywordsCall
    \/ CategorizeLegalContentCall

SpecCalls == InitCalls /\ [][NextCalls]_vars

\* The finished call of fn, when the state holds one.
Done(fn) == call # NoValue /\ "done" \in DOMAIN call /\ call.done.fn = fn

----
(* The template-driven plan generators as functions of their arguments and *)
(* of the stores they read.                                                *)

PlanFocuses == { "termination", "strata management", "data protection", "workplace safety" }

PlanDurations == MinDuration..MaxDuration

PlanCompanies == { "desaria_group", "ghost_co" }

PlanCalls ==
    { [ fn |-> "generateLessonPlanWithQuizzes", trainingFocus |-> f, duration |-> d,
        companyId |-> c ] : f \in PlanFocuses, d \in PlanDurations, c \in PlanCompanies }
    \cup { [ fn |-> "generateMockEnhancedLessonPlan", input |-> GenInput(f, d, c) ] :
              f \in PlanFocuses, d \in PlanDurations, c \in PlanCompanies }

\* The stores before an ingestion run and after one.
InitPlans ==
    /\ \/ MOCK_LEGAL_LIBRARY = << >> /\ MOCK_COMPANY_METADATA_ENHANCED = << >>
       \/ MOCK_LEGAL_LIBRARY = IngestedDocuments
          /\ MOCK_COMPANY_METADATA_ENHANCED = DesariaStore
    /\ UNRESOLVED_TOPICS = << >>
    /\ MOCK_ONBOARDING_TRACKS = << >>
    /\ clock = 0
    /\ gen = GenIdle
    /\ calls = 0
    /\ ing = IngIdle
    /\ ingests = 0
    /\ saves = 0
    /\ written = [ id \in CompanyIds |-> NoValue ]
    /\ quizIn = NoValue
    /\ quizOut = NoValue
    /\ call \in { [ pending |-> c ] : c \in PlanCalls }

GenerateLessonPlanWithQuizzesCall ==
    /\ Pending("generateLessonPlanWithQuizzes")
    /\ Return(generateLessonPlanWithQuizzes(MOCK_LEGAL_LIBRARY,
                                            MOCK_COMPANY_METADATA_ENHANCED,
                                            call.pending.trainingFocus,
                                            call.pending.duration,
                                            call.pending.companyId))

GenerateMockEnhancedLessonPlanCall ==
    /\ Pending("generateMockEnhancedLessonPlan")
    /\ Return(generateMockEnhancedLessonPlan(MOCK_LEGAL_LIBRARY,
                                             MOCK_COMPANY_METADATA_ENHANCED,
                                             call.pending.input, clock))

NextPlans ==
    \/ GenerateLessonPlanWithQuizzesCall
    \/ GenerateMockEnhancedLessonPlanCall

SpecPlans == InitPlans /\ [][NextPlans]_vars


-----------------------------------------------------------------------------
(* The claims.                                                             *)

\* C1: the confidence resolveTrainingTopic returns is one of 0, 0.5, 0.7 and
\* 0.9 (in tenths 0, 5, 7, 9): 0.9 when the direct search of the corpus
\* returns two or more documents, 0.7 when it returns one, 0.5 when it returns
\* none and the keyword fallback over the HR-relevant documents returns at
\* least one, 0 when both return none.
C1_ConfidenceBands ==
    gen.resolution # NoValue =>
        LET direct == searchLegalLibrary(MOCK_LEGAL_LIBRARY, gen.input.trainingFocus)
            fallback == generalMatch(getHRRelevantLegalDocs(MOCK_LEGAL_LIBRARY),
                                     gen.input.trainingFocus)
        IN  /\ gen.relevantDocs = direct
            /\ gen.resolution.confidence \in { 0, 5, 7, 9 }
            /\ gen.resolution.confidence =
                  IF Len(direct) >= 2 THEN 9
                  ELSE IF Len(direct) = 1 THEN 7
                  ELSE IF Len(fallback) >= 1 THEN 5
                  ELSE 0

\* A call resolved by the keyword fallback.
C1_FallbackBand ==
    /\ gen.resolution # NoValue
    /\ Len(gen.relevantDocs) = 0
    /\ Len(gen.hrDocs) > 0
    /\ gen.resolution.confidence = ConfidenceFallback
    /\ gen.resolution.confidence = ConfidenceFallback

\* C2: when neither the direct search nor the fallback matches, the resolver
\* returns the original topic unchanged with confidence 0 and no suggested
\* documents, and the flow appends one record {topic, timestamp, reason} whose
\* topic is the original input to the unresolved-topic log.
C2_UnresolvedRecorded ==
    [][ ( /\ gen.pc = "fallback"
          /\ gen'.pc = "legal"
          /\ Len(gen.relevantDocs) = 0
          /\ Len(generalMatch(gen.hrDocs, gen.input.trainingFocus)) = 0 )
        => /\ gen'.resolution = [ clarifiedTopic |-> gen.input.trainingFocus,
                                  suggestedLaws |-> << >>,
                                  confidence |-> 0 ]
           /\ Len(UNRESOLVED_TOPICS') = Len(UNRESOLVED_TOPICS) + 1
           /\ SubSeq(UNRESOLVED_TOPICS', 1, Len(UNRESOLVED_TOPICS)) = UNRESOLVED_TOPICS
           /\ LET record == UNRESOLVED_TOPICS'[Len(UNRESOLVED_TOPICS')]
              IN  /\ DOMAIN record = { "topic", "timestamp", "reason" }
                  /\ record.topic = gen.input.trainingFocus
                  /\ record.timestamp = clock ]_vars

\* A call nothing matched, with its record in the log.
C2_Unresolved ==
    /\ gen.pc = "legal"
    /\ gen.resolution.confidence = ConfidenceNone
    /\ gen.resolution.clarifiedTopic = "xyz123nonsense"
    /\ Len(UNRESOLVED_TOPICS) = 1
    /\ UNRESOLVED_TOPICS[1].topic = "xyz123nonsense"

\* C3: a call whose legal references are empty and whose company policies are
\* empty (no companyId, or a companyId without a stored record) fails with the
\* insufficient-content error instead of returning a plan; a call with a
\* non-empty list never fails with that error.
C3_InsufficientContent ==
    gen.context # NoValue =>
        LET noReferences == Len(gen.legal.references) = 0
            noPolicies == Len(gen.context.policies) = 0
            raised == /\ gen.pc = "failed"
                      /\ gen.result = ErrorInsufficient(gen.input.trainingFocus)
        IN  /\ noPolicies <=> (~CompanyIdGiven(gen.input) \/ gen.companyData = NoValue)
            /\ (noReferences /\ noPolicies) <=> raised
            /\ gen.pc = "done" => "lessonPlan" \in DOMAIN gen.result

\* A call for an unknown company that failed for lack of content.
C3_Raised ==
    /\ gen.pc = "failed"
    /\ gen.context # NoValue
    /\ gen.input.companyId = "ghost_co"
    /\ Len(gen.legal.references) = 0
    /\ gen.result = ErrorInsufficient(gen.input.trainingFocus)

\* C4: a call with a duration outside 2..7 fails with a validation error
\* before any corpus lookup, company lookup or log append; a call with a
\* duration inside 2..7 is accepted and goes on to topic resolution.
C4_DurationValidated ==
    [][ calls' = calls + 1 =>
          IF gen'.input.duration \in 2..7
          THEN /\ gen'.pc = "resolve"
               /\ gen'.reads = << "searchLegalLibrary" >>
          ELSE /\ gen'.pc = "failed"
               /\ gen'.result = ErrorValidation
               /\ gen'.reads = << >>
               /\ UNCHANGED << UNRESOLVED_TOPICS, MOCK_ONBOARDING_TRACKS >> ]_vars

\* A call with duration 8, rejected before any read.
C4_Rejected ==
    /\ gen.pc = "failed"
    /\ gen.input.duration = 8
    /\ gen.result = ErrorValidation
    /\ gen.reads = << >>

\* C5: a training focus that is empty after trimming is rejected with a
\* validation error; it never reaches topic resolution and never matches a
\* document of the corpus.
C5_EmptyFocusRejected ==
    (gen.input # NoValue /\ Trim(gen.input.trainingFocus) = "") =>
        /\ gen.pc = "failed"
        /\ gen.result = ErrorValidation
        /\ gen.reads = << >>
        /\ gen.relevantDocs = << >>

\* C6: a reader of the legal library that runs while a re-ingestion is between
\* its clear and its last save sees the complete old corpus or the complete
\* new corpus, never an empty or partly filled one.
C6_AtomicReingestion ==
    (gen.observed # NoValue /\ gen.observed.ingesting) =>
        gen.observed.library \in { gen.observed.old, IngestedDocuments }

\* C7: the company store holds exactly one record for every companyId ever
\* written and none for any other; the record carries the data of the latest
\* write, the createdAt of the first write and the lastUpdated of the latest,
\* so a write changes no record of another companyId.
C7_Upsert ==
    /\ \A i \in 1..Len(MOCK_COMPANY_METADATA_ENHANCED) :
          MOCK_COMPANY_METADATA_ENHANCED[i].companyId \in CompanyIds
    /\ \A id \in CompanyIds :
          LET held == { i \in 1..Len(MOCK_COMPANY_METADATA_ENHANCED) :
                          MOCK_COMPANY_METADATA_ENHANCED[i].companyId = id }
          IN  IF written[id] = NoValue THEN held = { }
              ELSE /\ Cardinality(held) = 1
                   /\ \A i \in held :
                         LET record == MOCK_COMPANY_METADATA_ENHANCED[i]
                         IN  /\ record.createdAt = written[id].first
                             /\ record.lastUpdated = written[id].last
                             /\ record.companyName = written[id].data.companyName
                             /\ record.contactEmail = written[id].data.contactEmail
                             /\ record.policies = written[id].data.policies

\* A company written a second time, later than the first, beside another one.
C7_Rewritten ==
    /\ Len(MOCK_COMPANY_METADATA_ENHANCED) = 2
    /\ \E id \in CompanyIds :
          /\ written[id] # NoValue
          /\ written[id].first < written[id].last

\* The trigger words of each policy field.
PolicyTriggers ==
    [ leave |-> { "leave", "vacation" },
      probation |-> { "probation", "trial" },
      termination |-> { "termination", "dismissal" },
      training |-> { "training", "induction" },
      overtime |-> { "overtime", "hours" },
      conduct |-> { "conduct", "harassment", "ethics" } ]

\* C8: for a company with a stored record fetchCompanyContext selects exactly
\* the policy fields with a trigger word in the clarified topic, and all six
\* fields when no field is triggered: the list is never empty, holds each
\* field at most once and nothing but the six fields, each with the company's
\* text.
C8_PolicySelection ==
    (gen.context # NoValue /\ gen.companyData # NoValue) =>
        LET policies == gen.context.policies
            topic == ToLowerCase(gen.resolution.clarifiedTopic)
            triggered == { f \in DOMAIN PolicyTriggers :
                             \E w \in PolicyTriggers[f] : Includes(topic, w) }
            expected == IF triggered = { } THEN DOMAIN PolicyTriggers ELSE triggered
        IN  /\ { policies[i].policyType : i \in 1..Len(policies) } = expected
            /\ Len(policies) = Cardinality(expected)
            /\ Len(policies) >= 1
            /\ expected \subseteq Range(PolicyFields)
            /\ \A i \in 1..Len(policies) :
                  policies[i].policyText = gen.companyData.policies[policies[i].policyType]

\* A call whose topic triggers two fields, in capitals, and selects just them.
C8_TwoTriggered ==
    /\ gen.context # NoValue
    /\ gen.companyData # NoValue
    /\ gen.resolution.clarifiedTopic = "Overtime Ethics"
    /\ Len(gen.context.policies) = 2

\* C9: the text of every policy field selected for a call is in the company
\* context the plan is built from, as a policy callout.
C9_SelectedPolicyInCallout ==
    gen.context # NoValue =>
        \A i \in 1..Len(gen.context.policies) :
            Includes(gen.context.contextualizedContent,
                     " Policy:** " \o gen.context.policies[i].policyText)

\* C10: generateQuizForModule returns null without trying a template for a
\* module whose summary is shorter than 20 characters or whose title is empty,
\* whatever company context it is given.
C10_VagueModuleSkipped ==
    (quizIn # NoValue
     /\ (Len(quizIn.module.summary) < 20 \/ quizIn.module.title = "")) =>
        /\ quizOut.quiz = NoValue
        /\ quizOut.tried = << >>

\* A module without a title whose summary the employment template matches.
C10_Untitled ==
    /\ quizIn # NoValue
    /\ quizIn.module.title = ""
    /\ quizIn.module.summary = "Employment termination requires 1 month notice."
    /\ quizIn.companyContext # NoValue
    /\ quizOut.quiz = NoValue

\* C11: for a module that passes the vagueness check generateQuizForModule
\* returns the quiz of the first template, in the order employment, strata,
\* data-protection, company-policy, generic, that yields one; the
\* company-policy template is consulted only when a company context is
\* supplied, and the quiz of a later template is never returned when an
\* earlier template yields one.
C11_TemplateOrder ==
    (quizIn # NoValue
     /\ Len(quizIn.module.summary) >= 20 /\ quizIn.module.title # "") =>
        LET module == quizIn.module
            supplied == quizIn.companyContext # NoValue
            first ==
                IF generateEmploymentQuiz(module) # NoValue
                THEN generateEmploymentQuiz(module)
                ELSE IF generateStrataQuiz(module) # NoValue
                THEN generateStrataQuiz(module)
                ELSE IF generateDataProtectionQuiz(module) # NoValue
                THEN generateDataProtectionQuiz(module)
                ELSE IF supplied
                        /\ generateCompanyPolicyQuiz(
                               module, quizIn.companyContext.companyName) # NoValue
                THEN generateCompanyPolicyQuiz(module, quizIn.companyContext.companyName)
                ELSE generateGenericQuiz(module)
        IN  /\ quizOut.quiz = first
            /\ ~supplied =>
                  \A k \in 1..Len(quizOut.tried) : quizOut.tried[k].template # "company-policy"

\* A module both the strata and the data-protection template match: the
\* quiz of the strata template is returned.
C11_EarlierTemplateWins ==
    /\ quizIn # NoValue
    /\ quizIn.module.title = "Data handling"
    /\ quizIn.module.summary = "Strata management covers maintenance and data consent"
    /\ generateDataProtectionQuiz(quizIn.module) # NoValue
    /\ quizOut.quiz # NoValue
    /\ quizOut.quiz.correctAnswer = "Management Corporation"

\* C12: for a non-vague module whose title and summary contain "termination"
\* (in any case) and "1 month" or "1-month", the quiz returned has the correct
\* answer "1 month", four options that include it, and the reference of the
\* module as its sourceRef, whatever company context is given.
C12_TerminationTemplate ==
    (quizIn # NoValue
     /\ Len(quizIn.module.summary) >= 20 /\ quizIn.module.title # ""
     /\ Includes(ToLowerCase(quizIn.module.title \o " " \o quizIn.module.summary),
                 "termination")
     /\ \/ Includes(quizIn.module.title \o " " \o quizIn.module.summary, "1 month")
        \/ Includes(quizIn.module.title \o " " \o quizIn.module.summary, "1-month")) =>
        /\ quizOut.quiz # NoValue
        /\ quizOut.quiz.correctAnswer = "1 month"
        /\ Len(quizOut.quiz.options) = 4
        /\ \E k \in 1..4 : quizOut.quiz.options[k] = "1 month"
        /\ quizOut.quiz.sourceRef = quizIn.module.reference

\* A module with "Termination" and "1-month" in its summary, which the
\* data-protection template matches too, for a call with a company context.
C12_Fired ==
    /\ quizIn # NoValue
    /\ quizIn.module.title = "Data handling"
    /\ quizIn.module.summary = "Termination needs a 1-month notice period."
    /\ quizIn.module.reference = "general_training"
    /\ quizIn.companyContext # NoValue
    /\ quizOut.quiz # NoValue
    /\ quizOut.quiz.correctAnswer = "1 month"

\* C13: a quiz of the generic fallback is flagged by validation: what
\* validateQuiz returns for it differs from what it returns for a quiz of a
\* domain template, which is valid with no issue.
C13_GenericFlagged ==
    (quizIn # NoValue /\ quizOut.quiz # NoValue
     /\ quizOut.tried[Len(quizOut.tried)].template = "generic") =>
        validateQuiz(quizOut.quiz) # [ isValid |-> TRUE, issues |-> << >> ]

\* C14: generateDistractors returns exactly 3 pairwise distinct strings none
\* of which equals the correct answer, for an answer of a curated shape and
\* for an answer padded from the generic filler list.
C14_ThreeDistinctDistractors ==
    Done("generateDistractors") =>
        /\ Len(call.result) = 3
        /\ \A i, j \in 1..Len(call.result) : i # j => call.result[i] # call.result[j]
        /\ \A i \in 1..Len(call.result) : call.result[i] # call.done.correctAnswer

\* C15: a quiz for which validateQuiz returns isValid = true has 3 or 4
\* options, no two of them equal, and its correct answer among them; and
\* isValid is true only when the issues list is empty.
C15_ValidQuizOptions ==
    Done("validateQuiz") =>
        /\ call.result.isValid =>
              /\ Len(call.done.quiz.options) \in { 3, 4 }
              /\ \A i, j \in 1..Len(call.done.quiz.options) :
                    i # j => call.done.quiz.options[i] # call.done.quiz.options[j]
              /\ \E i \in 1..Len(call.done.quiz.options) :
                    call.done.quiz.options[i] = call.done.quiz.correctAnswer
        /\ call.result.isValid <=> call.result.issues = << >>

\* A quiz with three distinct options that validateQuiz accepts.
C15_Accepted ==
    /\ Done("validateQuiz")
    /\ call.result.isValid
    /\ Len(call.done.quiz.options) = 3

\* C16: a quiz validateQuiz accepts has a question that ends in "?" and is
\* at least 10 characters long, and an explanation of at least 20 characters.
C16_ValidQuizQuestion ==
    (Done("validateQuiz") /\ call.result.isValid) =>
        /\ Len(call.done.quiz.question) >= 10
        /\ SubSeq(call.done.quiz.question, Len(call.done.quiz.question),
                  Len(call.done.quiz.question)) = "?"
        /\ Len(call.done.quiz.explanation) >= 20

\* C18: extractKeywords returns at most 20 pairwise distinct lowercase tokens
\* in the order they are first seen in the text, none of them a stop word and
\* none shorter than 4 characters; a second call on the same text returns the
\* same sequence.
C18_KeywordsBoundedAndOrdered ==
    Done("extractKeywords") =>
        LET keywords == call.result
            tokens == SplitWhitespace(StripPunctuation(ToLowerCase(call.done.text)))
            FirstSeen(word) == CHOOSE k \in 1..Len(tokens) :
                                  tokens[k] = word /\ \A j \in 1..(k - 1) : tokens[j] # word
        IN  /\ Len(keywords) <= 20
            /\ \A i, j \in 1..Len(keywords) : i # j => keywords[i] # keywords[j]
            /\ \A i \in 1..Len(keywords) :
                  /\ ToLowerCase(keywords[i]) = keywords[i]
                  /\ keywords[i] \notin commonWords
                  /\ Len(keywords[i]) >= 4
                  /\ \E k \in 1..Len(tokens) : tokens[k] = keywords[i]
            /\ \A i \in 1..(Len(keywords) - 1) :
                  FirstSeen(keywords[i]) < FirstSeen(keywords[i + 1])
            /\ extractKeywords(call.done.text) = keywords

\* A text of more than 20 distinct words, the first of them repeated, cut
\* to its first 20.
C18_Truncated ==
    /\ Done("extractKeywords")
    /\ Len(SplitWhitespace(call.done.text)) > 20
    /\ Len(call.result) = 20
    /\ call.result[1] = "alpha1"

\* C19: categorizeLegalContent returns a non-empty category for every title
\* and text: the category of the keyword that comes first in the table order
\* strata, property, employment, company, data, tax, audit, construction,
\* environment, trade among those the lowercased title and text contain,
\* wherever they occur in the text, and "General Law" when none occurs.
C19_CategoryByTableOrder ==
    Done("categorizeLegalContent") =>
        LET order == << "strata", "property", "employment", "company", "data", "tax",
                        "audit", "construction", "environment", "trade" >>
            text == ToLowerCase(call.done.title \o " " \o call.done.content)
            found == { k \in 1..Len(order) : Includes(text, order[k]) }
            first == CHOOSE k \in found : \A j \in found : k <= j
        IN  /\ call.result # ""
            /\ \A k \in 1..Len(order) : LAW_CATEGORIES[k][1] = order[k]
            /\ Len(LAW_CATEGORIES) = Len(order)
            /\ call.result = IF found = { } THEN "General Law" ELSE LAW_CATEGORIES[first][2]

\* A title and text holding trade, employment, audit, company and property in
\* that order, categorized by property.
C19_LaterInTextWins ==
    /\ Done("categorizeLegalContent")
    /\ call.done.title = "Trade and Employment Act"
    /\ call.done.content = "An audit of COMPANY property"
    /\ call.result = "Property Law"

\* C20: every document in the legal library has a keywords list of at most
\* 20 entries, all lowercase and pairwise distinct.
C20_StoredKeywordsBounded ==
    \A d \in 1..Len(MOCK_LEGAL_LIBRARY) :
        LET keywords == MOCK_LEGAL_LIBRARY[d].keywords
        IN  /\ Len(keywords) <= 20
            /\ \A i \in 1..Len(keywords) : ToLowerCase(keywords[i]) = keywords[i]
            /\ \A i, j \in 1..Len(keywords) : i # j => keywords[i] # keywords[j]

\* The module the flow builds for line i of the plan of the call, which is
\* a module line, and the quiz it generates for it.
PlanModule(lines, i) ==
    ModuleOfLine(lines, i, gen.legal.references, gen.quizCompany, gen.context.companyName)

PlanQuiz(lines, i) ==
    generateQuizForModule(PlanModule(lines, i), gen.legal.references, gen.quizCompany)

\* Line i of the plan is a module line that ships with a quiz.
ShipsQuiz(lines, i) ==
    /\ StartsWith(Trim(lines[i]), "- ")
    /\ PlanQuiz(lines, i) # NoValue
    /\ validateQuiz(PlanQuiz(lines, i)).isValid

\* Line i of the plan is a module line that ships without a quiz.
ShipsBare(lines, i) ==
    /\ StartsWith(Trim(lines[i]), "- ")
    /\ ~ShipsQuiz(lines, i)

\* out holds line i of the plan with line i + 1 right after it.
FollowedByNext(lines, out, i) ==
    \E p \in 1..Len(out) :
        /\ out[p] = lines[i]
        /\ IF i = Len(lines) THEN p = Len(out)
           ELSE p < Len(out) /\ out[p + 1] = lines[i + 1]

\* out holds line i of the plan with the head of a quiz block right after it.
FollowedByQuiz(lines, out, i) ==
    \E p \in 1..(Len(out) - 2) :
        /\ out[p] = lines[i]
        /\ out[p + 1] = ""
        /\ out[p + 2] = "  **Quick Knowledge Check:**"

\* C17: when no quiz is generated for a module of the plan, or the quiz is
\* invalid, the module ships without a quiz: the flow returns a plan and no
\* error, no quiz block follows the line of the module, no quiz is attached
\* to its TrainingModule, and every later module is still processed, with its
\* quiz block when it has a quiz.
C17_QuizlessModuleShips ==
    gen.pc = "done" =>
        /\ "lessonPlan" \in DOMAIN gen.result
        /\ \A i \in 1..Len(Split(gen.output.lessonPlan, "\n")) :
              /\ ShipsBare(Split(gen.output.lessonPlan, "\n"), i) =>
                    /\ FollowedByNext(Split(gen.output.lessonPlan, "\n"),
                                      Split(gen.result.lessonPlan, "\n"), i)
                    /\ PlanQuiz(Split(gen.output.lessonPlan, "\n"), i) = NoValue =>
                          enhanceModuleWithQuiz(
                              PlanModule(Split(gen.output.lessonPlan, "\n"), i).title,
                              PlanModule(Split(gen.output.lessonPlan, "\n"), i).summary,
                              PlanModule(Split(gen.output.lessonPlan, "\n"), i).reference,
                              gen.legal.references, gen.quizCompany).quiz = NoValue
              /\ ShipsQuiz(Split(gen.output.lessonPlan, "\n"), i) =>
                    FollowedByQuiz(Split(gen.output.lessonPlan, "\n"),
                                   Split(gen.result.lessonPlan, "\n"), i)
        /\ Cardinality({ p \in 1..Len(Split(gen.result.lessonPlan, "\n")) :
                           Split(gen.result.lessonPlan, "\n")[p]
                               = "  **Quick Knowledge Check:**" })
              = Cardinality({ i \in 1..Len(Split(gen.output.lessonPlan, "\n")) :
                                ShipsQuiz(Split(gen.output.lessonPlan, "\n"), i) })

\* A finished call whose plan has a module without a quiz ahead of a module
\* with one.
C17_LaterModuleProcessed ==
    /\ gen.pc = "done"
    /\ \E i, j \in 1..Len(Split(gen.output.lessonPlan, "\n")) :
          /\ i < j
          /\ ShipsBare(Split(gen.output.lessonPlan, "\n"), i)
          /\ ShipsQuiz(Split(gen.output.lessonPlan, "\n"), j)
          /\ FollowedByQuiz(Split(gen.output.lessonPlan, "\n"),
                            Split(gen.result.lessonPlan, "\n"), j)


\* C21: when the free-text generation service returns nothing (no output, or
\* an output without lesson plan text) for a call whose grounding is
\* non-empty (legal references or company policies), the call does not fail:
\* it goes on to return a plan.
C21_PlanWithoutGenerationService ==
    [][ ( /\ gen.pc = "prompt"
          /\ gen'.pc # "prompt"
          /\ gen'.output = NoValue \/ gen'.output = [ lessonPlan |-> "" ]
          /\ Len(gen.legal.references) > 0 \/ Len(gen.context.policies) > 0 )
        => gen'.pc # "failed" ]_vars

\* The day-blocks of a plan text: for each "## Day ..." header line its
\* label (the text before the colon) and the number of "- " module lines
\* up to the next header.
HeaderLines(lines) == { i \in 1..Len(lines) : StartsWith(lines[i], "## Day ") }

\* The line of the k-th header.
HeaderLine(lines, k) ==
    CHOOSE i \in HeaderLines(lines) :
        Cardinality({ j \in HeaderLines(lines) : j <= i }) = k

\* The line after the block of the k-th header.
BlockEnd(lines, k) ==
    IF k < Cardinality(HeaderLines(lines)) THEN HeaderLine(lines, k + 1)
    ELSE Len(lines) + 1

DayBlock(lines, k) ==
    [ label |-> Split(SubSeq(lines[HeaderLine(lines, k)], 4,
                             Len(lines[HeaderLine(lines, k)])), ":")[1],
      modules |-> Cardinality({ j \in (HeaderLine(lines, k) + 1)..(BlockEnd(lines, k) - 1) :
                                  StartsWith(lines[j], "- ") }) ]

DayBlocksOf(lines) == [ k \in 1..Cardinality(HeaderLines(lines)) |-> DayBlock(lines, k) ]

DayBlocks(plan) == DayBlocksOf(Split(plan, "\n"))

\* The plan has exactly duration day-blocks, labelled Day 1 to Day duration in
\* order, each with at least one module.
OneBlockPerDay(plan, duration) ==
    /\ Len(DayBlocks(plan)) = duration
    /\ \A k \in 1..Len(DayBlocks(plan)) :
          /\ DayBlocks(plan)[k].label = "Day " \o ToString(k)
          /\ DayBlocks(plan)[k].modules >= 1

\* The requested duration of a finished call of a plan generator.
RequestedDuration ==
    IF call.done.fn = "generateLessonPlanWithQuizzes" THEN call.done.duration
    ELSE call.done.input.duration

\* C22: for every requested duration d in 2..7 the template-driven plan
\* generators (generateLessonPlanWithQuizzes, generateMockEnhancedLessonPlan)
\* emit exactly d day-blocks, labelled Day 1 to Day d in order, each carrying
\* at least one module.
C22_OneDayBlockPerDay ==
    (Done("generateLessonPlanWithQuizzes") \/ Done("generateMockEnhancedLessonPlan"))
    => OneBlockPerDay(call.result.lessonPlan, RequestedDuration)


\* C23: a track-generation call, whether it succeeds or fails, leaves the
\* legal library and the company metadata store unchanged: no step of a call
\* changes either of them.
C23_StoresReadOnly ==
    [][ gen' # gen
        => /\ MOCK_LEGAL_LIBRARY' = MOCK_LEGAL_LIBRARY
           /\ MOCK_COMPANY_METADATA_ENHANCED' = MOCK_COMPANY_METADATA_ENHANCED ]_vars

\* A call has saved its track with both stores filled, and they are as the
\* ingestion run left them.
C23_TrackSavedOverFilledStores ==
    /\ gen.pc = "done"
    /\ Len(MOCK_ONBOARDING_TRACKS) = 1
    /\ MOCK_LEGAL_LIBRARY = IngestedDocuments
    /\ MOCK_COMPANY_METADATA_ENHANCED = DesariaStore


\* The resolver of the call in flight has returned from its HR-relevant
\* fallback: the direct search was empty.
FallbackRan == gen.resolution # NoValue /\ Len(gen.relevantDocs) = 0

\* Some keyword of doc, lowercased, is a substring of the lowercased query.
KeywordInQuery(doc, query) ==
    \E k \in 1..Len(doc.keywords) :
        Includes(ToLowerCase(query), ToLowerCase(doc.keywords[k]))

\* The lowercased query is a substring of some keyword of doc.
QueryInKeyword(doc, query) ==
    \E k \in 1..Len(doc.keywords) :
        Includes(ToLowerCase(doc.keywords[k]), ToLowerCase(query))

\* The first documents of the library, up to the suggestion limit, that are
\* HR-relevant and have a keyword inside the query.
RelevantWithKeywordInQuery ==
    LET Hit(doc) == doc.onboardingRelevance /\ KeywordInQuery(doc, gen.input.trainingFocus)
    IN  Slice(SelectSeq(MOCK_LEGAL_LIBRARY, Hit), SuggestedLimit)

\* The first documents of the library, up to the suggestion limit, that are
\* HR-relevant and have a keyword with the query inside.
RelevantWithQueryInKeyword ==
    LET Hit(doc) == doc.onboardingRelevance /\ QueryInKeyword(doc, gen.input.trainingFocus)
    IN  Slice(SelectSeq(MOCK_LEGAL_LIBRARY, Hit), SuggestedLimit)

\* C24 as stated: in the HR-relevant fallback a document with
\* onboardingRelevance = true matches exactly when the lowercased query is a
\* substring of at least one of its keywords, and documents with
\* onboardingRelevance = false never match.
C24_QueryInKeyword ==
    FallbackRan => gen.resolution.suggestedLaws = RelevantWithQueryInKeyword

\* C24 as amended: in the HR-relevant fallback a document with
\* onboardingRelevance = true matches exactly when at least one of its
\* keywords, lowercased, is a substring of the lowercased query, and documents
\* with onboardingRelevance = false never match; the resolution has
\* confidence 0.5 exactly when some document matches.
C24_KeywordInQuery ==
    FallbackRan
    => /\ gen.resolution.suggestedLaws = RelevantWithKeywordInQuery
       /\ gen.resolution.confidence = ConfidenceFallback
            <=> Len(RelevantWithKeywordInQuery) > 0

\* The fallback has matched a document over a library that also holds a
\* document that is not HR-relevant.
C24_FallbackMatched ==
    /\ FallbackRan
    /\ Len(gen.resolution.suggestedLaws) > 0
    /\ \E i \in 1..Len(MOCK_LEGAL_LIBRARY) : ~MOCK_LEGAL_LIBRARY[i].onboardingRelevance


\* The query with its leading, trailing and repeated spaces removed.
SqueezeSpaces(query) ==
    LET NonEmpty(piece) == piece # ""
    IN  Join(SelectSeq(Split(query, " "), NonEmpty), " ")

\* The documents of the library, in store order, whose lowercased searchable
\* surface contains at least one term of the squeezed, lowercased query.
DocsWithSomeTerm(library, query) ==
    LET terms == Split(ToLowerCase(SqueezeSpaces(query)), " ")
        Hit(doc) == \E k \in 1..Len(terms) :
                        Includes(ToLowerCase(doc.lawTitle \o " " \o doc.category \o " "
                                             \o Join(doc.keywords, " ") \o " "
                                             \o Join(doc.synonyms, " ")),
                                 terms[k])
    IN  SelectSeq(library, Hit)

\* C25: searchLegalLibrary returns, in store order, exactly the documents
\* whose lowercased searchable surface (lawTitle, category, keywords,
\* synonyms) contains at least one whitespace-split term of the lowercased
\* query, and a query with leading, trailing or repeated spaces matches the
\* same documents as the query with those extra spaces removed.
C25_SearchByTerms ==
    gen.pc = "resolve"
    => gen.relevantDocs = DocsWithSomeTerm(MOCK_LEGAL_LIBRARY, gen.input.trainingFocus)


\* The places in the library of the documents the direct search matches:
\* those whose searchable text contains a term of the query.
MatchingPlaces ==
    { i \in 1..Len(MOCK_LEGAL_LIBRARY) :
        DocMatches(MOCK_LEGAL_LIBRARY[i],
                   Split(ToLowerCase(gen.input.trainingFocus), " ")) }

\* The k-th matching place in store order.
MatchingPlace(k) ==
    CHOOSE i \in MatchingPlaces : Cardinality({ j \in MatchingPlaces : j <= i }) = k

\* The resolver of the call in flight has returned with a non-empty direct
\* search.
DirectlyResolved == gen.resolution # NoValue /\ Len(gen.relevantDocs) > 0

\* C26: when the direct search is non-empty, clarifiedTopic is the category
\* of the first matching document in store order, and the suggested documents
\* are the first at most three matches in that same order.
C26_FirstMatchDecides ==
    DirectlyResolved
    => /\ MatchingPlaces # { }
       /\ gen.resolution.clarifiedTopic = MOCK_LEGAL_LIBRARY[MatchingPlace(1)].category
       /\ Len(gen.resolution.suggestedLaws)
            = (IF Cardinality(MatchingPlaces) > SuggestedLimit
               THEN SuggestedLimit ELSE Cardinality(MatchingPlaces))
       /\ \A k \in 1..Len(gen.resolution.suggestedLaws) :
              gen.resolution.suggestedLaws[k] = MOCK_LEGAL_LIBRARY[MatchingPlace(k)]

\* A direct search has matched more than three documents whose categories
\* differ, and the resolver has returned.
C26_MoreThanThreeMatches ==
    /\ DirectlyResolved
    /\ Cardinality(MatchingPlaces) > SuggestedLimit
    /\ \E i \in MatchingPlaces : \E j \in MatchingPlaces :
          MOCK_LEGAL_LIBRARY[i].category # MOCK_LEGAL_LIBRARY[j].category


\* C27: over a corpus that is not modified between the resolution step and
\* the legal-content step of a call, a resolution with confidence greater than
\* 0 leads to a non-empty legal-reference list, so the insufficient-content
\* error is raised only for calls whose confidence is 0.
C27_ResolvedTopicHasReferences ==
    /\ (gen.legal # NoValue /\ gen.resolution.confidence > ConfidenceNone)
       => Len(gen.legal.references) > 0
    /\ (gen.pc = "failed" /\ gen.result = ErrorInsufficient(gen.input.trainingFocus))
       => gen.resolution.confidence = ConfidenceNone

\* A topic resolved by the keyword fallback to a category other than the
\* typed focus has its legal references fetched.
C27_FallbackTopicFetched ==
    /\ gen.legal # NoValue
    /\ gen.resolution.confidence = ConfidenceFallback
    /\ gen.resolution.clarifiedTopic # gen.input.trainingFocus
    /\ Len(gen.legal.references) > 0


\* C28: every quiz that generateQuizForModule returns, from a domain template
\* or from the generic fallback, for any module and company name, passes
\* validateQuiz.
C28_GeneratedQuizIsValid ==
    (quizOut # NoValue /\ quizOut.quiz # NoValue) => validateQuiz(quizOut.quiz).isValid

\* The generic fallback has produced a quiz whose first option is cut from a
\* summary that reads like one of the fixed options.
C28_GenericQuizOverFillerSummary ==
    /\ quizOut # NoValue
    /\ quizOut.quiz # NoValue
    /\ Len(quizOut.tried) > 0
    /\ quizOut.tried[Len(quizOut.tried)].template = "generic"
    /\ quizIn.module.summary \in Range(quizOut.quiz.options)


\* C29: a call saves a track only as its last effect, on the step that
\* returns its result; a call that succeeds adds exactly one track, with
\* status "draft", behind the tracks already stored, and a call that fails
\* (validation, insufficient content, no generated plan) adds none.
C29_TrackSavedLast ==
    [][ /\ MOCK_ONBOARDING_TRACKS' # MOCK_ONBOARDING_TRACKS
           => gen.pc = "quiz" /\ gen'.pc = "done"
        /\ (gen.pc # "done" /\ gen'.pc = "done")
           => /\ Len(MOCK_ONBOARDING_TRACKS') = Len(MOCK_ONBOARDING_TRACKS) + 1
              /\ SubSeq(MOCK_ONBOARDING_TRACKS', 1, Len(MOCK_ONBOARDING_TRACKS))
                    = MOCK_ONBOARDING_TRACKS
              /\ MOCK_ONBOARDING_TRACKS'[Len(MOCK_ONBOARDING_TRACKS')].status = "draft"
        /\ gen'.pc = "failed" => MOCK_ONBOARDING_TRACKS' = MOCK_ONBOARDING_TRACKS
      ]_vars

\* A call has returned: the store holds the one draft track it saved, under
\* the id the call returned.
C29_OneDraftTrackSaved ==
    /\ gen.pc = "done"
    /\ Len(MOCK_ONBOARDING_TRACKS) = 1
    /\ MOCK_ONBOARDING_TRACKS[1].status = "draft"
    /\ MOCK_ONBOARDING_TRACKS[1].id = gen.result.trackId

----
(* The unresolved-topics log: generation calls over a library that a       *)
(* re-ingestion run clears and refills, with the callers that read and      *)
(* clear the log.                                                           *)

\* The stores after an earlier ingestion run whose company record is gone.
InitLog ==
    /\ MOCK_LEGAL_LIBRARY = IngestedDocuments
    /\ MOCK_COMPANY_METADATA_ENHANCED = << >>
    /\ UNRESOLVED_TOPICS = << >>
    /\ MOCK_ONBOARDING_TRACKS = << >>
    /\ clock = 0
    /\ gen = GenIdle
    /\ calls = 0
    /\ ing = IngIdle
    /\ ingests = 0
    /\ saves = 0
    /\ written = [ id \in CompanyIds |-> NoValue ]
    /\ quizIn = NoValue
    /\ quizOut = NoValue
    /\ call = NoValue

\* getUnresolvedTopics handing out the log array itself.
MutantGetUnresolvedTopics ==
    /\ call' = [ fn |-> "getUnresolvedTopics", returned |-> UNRESOLVED_TOPICS,
                 shared |-> TRUE ]
    /\ UNCHANGED << MOCK_LEGAL_LIBRARY, MOCK_COMPANY_METADATA_ENHANCED, UNRESOLVED_TOPICS,
                    MOCK_ONBOARDING_TRACKS, clock, gen, ing, written, bookVars, quizVars >>

\* getUnresolvedTopics returns a new array holding the entries of the log:
\* the array is not shared with the log.
GetUnresolvedTopics ==
    /\ call' = [ fn |-> "getUnresolvedTopics", returned |-> UNRESOLVED_TOPICS,
                 shared |-> FALSE ]
    /\ UNCHANGED << MOCK_LEGAL_LIBRARY, MOCK_COMPANY_METADATA_ENHANCED, UNRESOLVED_TOPICS,
                    MOCK_ONBOARDING_TRACKS, clock, gen, ing, written, bookVars, quizVars >>

\* The caller empties the array getUnresolvedTopics returned; the log follows
\* only if the array is shared with it.
EmptyReturned ==
    /\ call # NoValue
    /\ Len(call.returned) > 0
    /\ call' = [ call EXCEPT !.returned = << >> ]
    /\ UNRESOLVED_TOPICS' = IF call.shared THEN << >> ELSE UNRESOLVED_TOPICS
    /\ UNCHANGED << MOCK_LEGAL_LIBRARY, MOCK_COMPANY_METADATA_ENHANCED,
                    MOCK_ONBOARDING_TRACKS, clock, gen, ing, written, bookVars, quizVars >>

\* clearUnresolvedTopics sets the length of the log to 0.
ClearUnresolvedTopics ==
    /\ Len(UNRESOLVED_TOPICS) > 0
    /\ UNRESOLVED_TOPICS' = << >>
    /\ call' = [ fn |-> "clearUnresolvedTopics", returned |-> << >>, shared |-> FALSE ]
    /\ UNCHANGED << MOCK_LEGAL_LIBRARY, MOCK_COMPANY_METADATA_ENHANCED,
                    MOCK_ONBOARDING_TRACKS, clock, gen, ing, written, bookVars, quizVars >>

NextLog ==
    \/ GenStart
    \/ GenResolve
    \/ GenFallback
    \/ GenLegal
    \/ GenCompany
    \/ GenPrompt
    \/ GenSave
    \/ IngStart
    \/ IngProcess
    \/ IngCompany
    \/ GetUnresolvedTopics
    \/ EmptyReturned
    \/ ClearUnresolvedTopics

SpecLog == InitLog /\ [][NextLog]_vars

\* A step leaves the log as it is, or is a step of a generation call that
\* appends one entry behind the entries the log holds, or is a call of
\* clearUnresolvedTopics.
LogStep ==
    \/ UNRESOLVED_TOPICS' = UNRESOLVED_TOPICS
    \/ /\ Len(UNRESOLVED_TOPICS') = Len(UNRESOLVED_TOPICS) + 1
       /\ SubSeq(UNRESOLVED_TOPICS', 1, Len(UNRESOLVED_TOPICS)) = UNRESOLVED_TOPICS
       /\ gen' # gen
    \/ /\ UNRESOLVED_TOPICS' = << >>
       /\ gen' = gen
       /\ call'.fn = "clearUnresolvedTopics"

\* The reads of the resolution step, repeated on the corpus the
\* legal-content step searched, return what the resolution step saw.
SteadyCorpus ==
    /\ searchLegalLibrary(gen.observed.library, gen.input.trainingFocus) = gen.relevantDocs
    /\ Len(gen.relevantDocs) = 0
          => getHRRelevantLegalDocs(gen.observed.library) = gen.hrDocs

\* The number of entries in the log above those it held when the call began.
Appended == Len(UNRESOLVED_TOPICS) - gen.logBefore

\* The log after a call whose confidence is 0: one entry appended when a
\* plan is produced, two on the same topic with different reasons when the
\* call fails for insufficient content.
EntriesOfUnresolved ==
    /\ (gen.pc = "done" /\ gen.resolution.confidence = ConfidenceNone)
       => Appended = 1
    /\ (gen.pc = "failed" /\ gen.result = ErrorInsufficient(gen.input.trainingFocus)
           /\ gen.resolution.confidence = ConfidenceNone)
       => /\ Appended = 2
          /\ UNRESOLVED_TOPICS[gen.logBefore + 1].topic
                = UNRESOLVED_TOPICS[gen.logBefore + 2].topic
          /\ UNRESOLVED_TOPICS[gen.logBefore + 1].reason
                # UNRESOLVED_TOPICS[gen.logBefore + 2].reason

\* A finished call has a resolution with a confidence above 0.
FinishedResolved ==
    /\ gen.pc \in { "done", "failed" }
    /\ gen.resolution # NoValue
    /\ gen.resolution.confidence > ConfidenceNone

====
